---- MODULE Spec2Model ----
(***************************************************************************)
(* A model of the quiz bot of src/bot.py: the quiz-file parser             *)
(* (parse_quiz_file) and the access-tier resolver (is_sudo, is_premium,    *)
(* has_valid_token, check_access) with the premium administration          *)
(* commands (add_premium, remove_premium), the token verification          *)
(* (token_command, start_wrapper) and the broadcast commands               *)
(* (broadcast_command, handle_broadcast_message, confirm_broadcast,        *)
(* cancel_broadcast).                                                      *)
(*                                                                         *)
(* Text is a sequence of one-character strings, so that split, strip,      *)
(* lower, startswith and int are computed character by character as the   *)
(* Python built-ins compute them.                                          *)
(***************************************************************************)
EXTENDS Integers, Sequences, FiniteSets, TLC

VARIABLES
    content,          \* parse_quiz_file: the uploaded document text
    blocks,           \* parse_quiz_file: content.split('\n\n')
    parsed,           \* parse_quiz_file has returned
    valid_questions,  \* parse_quiz_file: the returned list of questions
    errors,           \* parse_quiz_file: the returned list of errors
    now,              \* the clock read by time.time() and datetime.utcnow(), in seconds
    DB,               \* the global DB is not None
    sudo_users,       \* collection DB.sudo_users: the user ids with a row
    premium_users,    \* collection DB.premium_users: user id -> expiry_date
    premium_start,    \* collection DB.premium_users: user id -> start_date
    tokens,           \* collection DB.tokens: user id -> expires_at
    users,            \* collection DB.users: the user ids with a row
    SUDO_CACHE,       \* user id -> [result, expiry]
    TOKEN_CACHE,      \* user id -> [result, expiry]
    PREMIUM_CACHE,    \* user id -> [result, expiry]
    last,             \* the last call: what was called, for whom, what it
                      \* returned and the store operations it made
    temp_params,      \* user id -> the pending verification string
    BROADCAST_STATE,  \* operator id -> [state, message]
    delivery,         \* the last confirm_broadcast: the rows it read, what
                      \* the platform answered for each, the sends it made,
                      \* the time it slept and its final report
    inbox,            \* the updates received and not yet given to a handler
    running,          \* the handler that has been started and has not
                      \* returned, with its local variables
    prepared_users,   \* history: DB.users as it was when the owner's job
                      \* was last prepared (the code keeps no such record)
    tasks,            \* the coroutines that have been started and have not
                      \* returned, each at the store operation it awaits
    entitled,         \* history: what the last completed add_premium or
                      \* remove_premium made of the user's premium grant
    evicted_at,       \* history: user id -> the time at which the store
                      \* evicted the user's token row
    quiz_rows,        \* the quiz fields of the rows of DB.users: user id ->
                      \* [quiz_count, last_quiz_date], the date as a day number
    polls_today,      \* history: user id -> the quiz polls sent in the
                      \* current UTC day to the user, who has no premium row
    upload            \* the last handle_document: the questions it went
                      \* through, the polls it sent and its pauses

parserVars == <<content, blocks, parsed, valid_questions, errors>>

accessVars == <<now, DB, sudo_users, premium_users, premium_start, tokens,
                users, SUDO_CACHE, TOKEN_CACHE, PREMIUM_CACHE, last>>

tokenVars == <<temp_params>>

broadcastVars == <<BROADCAST_STATE, delivery>>

dispatchVars == <<inbox, running, prepared_users>>

raceVars == <<tasks, entitled>>

historyVars == <<evicted_at>>

quizVars == <<quiz_rows, polls_today, upload>>

vars == <<parserVars, accessVars, tokenVars, broadcastVars, dispatchVars,
          raceVars, historyVars, quizVars>>

(***************************************************************************)
(* Bounds of the model.                                                    *)
(***************************************************************************)
MaxBlocks == 2

\* the clock advances at most this many cache lifetimes
MaxLifetimes == 1

\* DB.users holds at most this many rows when a broadcast is sent
MaxRecipients == 2

\* the updates that wait for a handler at one time
MaxInbox == 1

\* the valid questions of an uploaded file
MaxQuestions == 5

\* the UTC days after the first that the clock reaches
MaxDays == 1

\* int(os.getenv('DAILY_QUIZ_LIMIT', 20)): the limit the deployment sets
DAILY_QUIZ_LIMIT == 3

\* the cache lifetimes the clock runs through where entries are left to age
MaxAges == 3

\* the rows of DB.users in the broadcast that gets to its progress edit
ProgressUsers == 20

(***************************************************************************)
(* Program constants.                                                      *)
(***************************************************************************)
CACHE_EXPIRY == 60

\* os.getenv('OWNER_ID')
OWNER_ID == 1

\* the users who talk to the bot: the owner and one other user
Users == {OWNER_ID, 2}

\* the users whose access is resolved: the owner administers
Subjects == Users \ {OWNER_ID}

(***************************************************************************)
(* Python string built-ins, on sequences of characters.                    *)
(***************************************************************************)
NL == "\n"

Whitespace == {" ", "\t", "\n", "\r"}

UpperChars == <<"A","B","C","D","E","F","G","H","I","J","K","L","M",
                "N","O","P","Q","R","S","T","U","V","W","X","Y","Z">>

LowerChars == <<"a","b","c","d","e","f","g","h","i","j","k","l","m",
                "n","o","p","q","r","s","t","u","v","w","x","y","z">>

DigitChars == <<"0","1","2","3","4","5","6","7","8","9">>

IsDigit(c) == \E d \in 1..10 : DigitChars[d] = c

DigitVal(c) == (CHOOSE d \in 1..10 : DigitChars[d] = c) - 1

\* str.lower() on one character
LowerChar(c) ==
    IF \E k \in 1..26 : UpperChars[k] = c
    THEN LowerChars[CHOOSE k \in 1..26 : UpperChars[k] = c]
    ELSE c

\* str.lower()
lower(s) == [k \in 1..Len(s) |-> LowerChar(s[k])]

\* str.strip(): leading and trailing whitespace removed
strip(s) ==
    LET keep == {k \in 1..Len(s) : s[k] \notin Whitespace}
    IN  IF keep = {} THEN <<>>
        ELSE LET lo == CHOOSE k \in keep : \A m \in keep : k <= m
                 hi == CHOOSE k \in keep : \A m \in keep : k >= m
             IN  SubSeq(s, lo, hi)

\* str.startswith(prefix)
startswith(s, prefix) ==
    /\ Len(s) >= Len(prefix)
    /\ SubSeq(s, 1, Len(prefix)) = prefix

\* str.find(sep, start): the least index >= start where sep occurs, 0 if none
RECURSIVE find(_, _, _)
find(s, sep, start) ==
    IF start + Len(sep) - 1 > Len(s) THEN 0
    ELSE IF SubSeq(s, start, start + Len(sep) - 1) = sep THEN start
    ELSE find(s, sep, start + 1)

\* str.split(sep): non-overlapping occurrences, left to right; never empty
RECURSIVE split(_, _)
split(s, sep) ==
    LET k == find(s, sep, 1)
    IN  IF k = 0 THEN <<s>>
        ELSE <<SubSeq(s, 1, k - 1)>> \o split(SubSeq(s, k + Len(sep), Len(s)), sep)

\* str.split(sep, 1): at most one split
split1(s, sep) ==
    LET k == find(s, sep, 1)
    IN  IF k = 0 THEN <<s>>
        ELSE <<SubSeq(s, 1, k - 1), SubSeq(s, k + Len(sep), Len(s))>>

\* the digits of an int() literal after its sign: digits, single underscores
\* allowed between digits
IntBody(s) ==
    LET t == strip(s)
    IN  IF t # <<>> /\ t[1] \in {"+", "-"} THEN Tail(t) ELSE t

\* int(s) does not raise ValueError
IsIntLiteral(s) ==
    LET b == IntBody(s)
    IN  /\ b # <<>>
        /\ IsDigit(b[1])
        /\ IsDigit(b[Len(b)])
        /\ \A k \in 1..Len(b) :
              \/ IsDigit(b[k])
              \/ b[k] = "_" /\ k > 1 /\ b[k - 1] # "_"

RECURSIVE DigitsValue(_, _)
DigitsValue(b, acc) ==
    IF b = <<>> THEN acc
    ELSE IF Head(b) = "_" THEN DigitsValue(Tail(b), acc)
    ELSE DigitsValue(Tail(b), acc * 10 + DigitVal(Head(b)))

\* int(s), for an s that int accepts
IntValue(s) ==
    LET t == strip(s)
        v == DigitsValue(IntBody(s), 0)
    IN  IF t[1] = "-" THEN 0 - v ELSE v

(***************************************************************************)
(* parse_quiz_file                                                         *)
(***************************************************************************)
\* the explanation of a question: None, or the stripped 7th line
NoExplanation == <<>>

\* the three kinds of entry of the errors list, each carrying the number i of
\* its block and the number the message prints (0 when it prints none)
ParseError(i, msg, n) == [i |-> i, msg |-> msg, n |-> n]

\* a faulty variant: the upper limit of the line count is not checked
BadLineCountNoUpper(n) == n < 6

\* len(lines) < 6 or len(lines) > 7
BadLineCount(n) == n < 6 \/ n > 7

\* a faulty variant: the range starts at 0
AnswerInRangeFromZero(answer_num) == 0 <= answer_num /\ answer_num <= 4

\* 1 <= answer_num <= 4
AnswerInRange(answer_num) == 1 <= answer_num /\ answer_num <= 4

\* a faulty variant: the answer number is stored one-based
CorrectIndexOneBased(answer_num) == answer_num

\* the correct_option_id stored with a question
CorrectIndex(answer_num) == answer_num - 1

\* The body of the loop for block number i: the lists after the iteration.
ParseBlock(i, block, qs, es) ==
    IF strip(block) = <<>> THEN <<qs, es>>
    ELSE
    LET lines == split(block, <<NL>>)
    IN  IF BadLineCount(Len(lines))
        THEN <<qs, Append(es, ParseError(i, "Invalid line count", Len(lines)))>>
        ELSE
        LET question == strip(lines[1])
            options == [k \in 1..4 |-> strip(lines[k + 1])]
            answer_line == strip(lines[6])
        IN  IF ~startswith(lower(answer_line), <<"a","n","s","w","e","r",":">>)
            THEN <<qs, Append(es, ParseError(i, "Missing 'Answer:' prefix", 0))>>
            ELSE
            LET rest == split1(answer_line, <<":">>)[2]
            IN  IF ~IsIntLiteral(rest)
                THEN <<qs, Append(es, ParseError(i, "Malformed answer line", 0))>>
                ELSE
                LET answer_num == IntValue(rest)
                IN  IF ~AnswerInRange(answer_num)
                    THEN <<qs, Append(es, ParseError(i, "Invalid answer number",
                                                     answer_num))>>
                    ELSE
                    LET explanation == IF Len(lines) > 6
                                       THEN <<strip(lines[7])>>
                                       ELSE NoExplanation
                    IN  <<Append(qs, <<question, options,
                                      CorrectIndex(answer_num), explanation>>),
                          es>>

\* a faulty variant: the loop ends at the first block in error (break for
\* continue)
RECURSIVE ParseLoopStopAtError(_, _, _, _)
ParseLoopStopAtError(bs, i, qs, es) ==
    IF i > Len(bs) THEN <<qs, es>>
    ELSE LET r == ParseBlock(i, bs[i], qs, es)
         IN  IF r[2] # es THEN r
             ELSE ParseLoopStopAtError(bs, i + 1, r[1], r[2])

\* for i, block in enumerate(blocks, 1)
RECURSIVE ParseLoop(_, _, _, _)
ParseLoop(bs, i, qs, es) ==
    IF i > Len(bs) THEN <<qs, es>>
    ELSE LET r == ParseBlock(i, bs[i], qs, es)
         IN  ParseLoop(bs, i + 1, r[1], r[2])

parse_quiz_file(text) ==
    ParseLoop(split(text, <<NL, NL>>), 1, <<>>, <<>>)

(***************************************************************************)
(* The documents the parser is run on: up to MaxBlocks blocks taken from   *)
(* SampleBlocks, separated by runs of 2, 3 or 4 line breaks, with or       *)
(* without a line break at the end of the file.                            *)
(***************************************************************************)
AnswerPrefix == <<"A","n","s","w","e","r",":">>

RECURSIVE JoinLines(_)
JoinLines(ls) ==
    IF Len(ls) = 1 THEN ls[1] ELSE ls[1] \o <<NL>> \o JoinLines(Tail(ls))

SampleBlocks == {
    \* six lines, answers 1, 4 and 3
    JoinLines(<<<<"P">>, <<"a">>, <<"b">>, <<"c">>, <<"d">>,
                AnswerPrefix \o <<" ", "1">>>>),
    JoinLines(<<<<"Q", " ">>, <<" ", "e">>, <<"f">>, <<"g">>, <<"h">>,
                AnswerPrefix \o <<" ", "4">>>>),
    JoinLines(<<<<"Y">>, <<"a">>, <<"b">>, <<"c">>, <<"d">>,
                AnswerPrefix \o <<" ", "3">>>>),
    \* seven lines: an explanation; the answer line in mixed case, signed,
    \* with surrounding blanks
    JoinLines(<<<<"R">>, <<"a">>, <<"b">>, <<"c">>, <<"d">>,
                <<" ","a","N","s","W","e","R",":","+","2"," ">>, <<"x">>>>),
    \* five and eight lines
    JoinLines(<<<<"S">>, <<"a">>, <<"b">>, <<"c">>,
                AnswerPrefix \o <<" ", "2">>>>),
    JoinLines(<<<<"T">>, <<"a">>, <<"b">>, <<"c">>, <<"d">>,
                AnswerPrefix \o <<" ", "3">>, <<"x">>, <<"y">>>>),
    \* no 'Answer:' prefix
    JoinLines(<<<<"U">>, <<"a">>, <<"b">>, <<"c">>, <<"d">>,
                <<"A","n","s"," ","2">>>>),
    \* the remainder is not an integer
    JoinLines(<<<<"V">>, <<"a">>, <<"b">>, <<"c">>, <<"d">>,
                AnswerPrefix \o <<" ", "b">>>>),
    JoinLines(<<<<"W">>, <<"a">>, <<"b">>, <<"c">>, <<"d">>,
                AnswerPrefix>>),
    \* the integer is out of range
    JoinLines(<<<<"X">>, <<"a">>, <<"b">>, <<"c">>, <<"d">>,
                AnswerPrefix \o <<" ", "5">>>>),
    JoinLines(<<<<"Z">>, <<"a">>, <<"b">>, <<"c">>, <<"d">>,
                AnswerPrefix \o <<"0">>, <<"x">>>>),
    \* whitespace only
    <<" ">>
}

Separators == {<<NL, NL>>, <<NL, NL, NL>>, <<NL, NL, NL, NL>>}

FileEnds == {<<>>, <<NL>>}

RECURSIVE DocumentsOf(_)
DocumentsOf(n) ==
    IF n = 0 THEN {<<>>}
    ELSE IF n = 1 THEN SampleBlocks
    ELSE {d \o s \o b : d \in DocumentsOf(n - 1), s \in Separators,
                        b \in SampleBlocks}

Documents ==
    {d \o e : d \in UNION {DocumentsOf(n) : n \in 0..MaxBlocks}, e \in FileEnds}

(***************************************************************************)
(* The access-tier resolver.  A resolver works on the caches and the       *)
(* store as the calls before it in the same handler left them: `st` holds  *)
(* the caches, the premium collection and the log of store operations of   *)
(* the handler so far.  `raises` is the set of store operations that raise *)
(* during the handler.                                                     *)
(***************************************************************************)
Put(f, k, v) == [x \in DOMAIN f \cup {k} |-> IF x = k THEN v ELSE f[x]]

Del(f, k) == [x \in DOMAIN f \ {k} |-> f[x]]

StoreOps == {"sudo_users.find_one", "premium_users.find_one",
             "premium_users.delete_one", "tokens.find_one",
             "users.find_one", "users.update_one",
             "premium_users.update_one", "tokens.update_one",
             "users.count_documents"}

Current ==
    [SUDO_CACHE |-> SUDO_CACHE, TOKEN_CACHE |-> TOKEN_CACHE,
     PREMIUM_CACHE |-> PREMIUM_CACHE, premium_users |-> premium_users,
     premium_start |-> premium_start, users |-> users, log |-> <<>>]

\* a faulty variant: an entry is served whatever its age
FreshForever(cache, user_id) == user_id \in DOMAIN cache

\* a faulty variant: an entry is still served at its expiry instant
FreshInclusive(cache, user_id) ==
    user_id \in DOMAIN cache /\ now <= cache[user_id].expiry

\* cached and time.time() < cached['expiry']
Fresh(cache, user_id) ==
    user_id \in DOMAIN cache /\ now < cache[user_id].expiry

\* {'result': result, 'expiry': time.time() + CACHE_EXPIRY}
CacheEntry(result) == [result |-> result, expiry |-> now + CACHE_EXPIRY]

\* a faulty variant: a grant is still valid at its expiry instant
PremiumValidInclusive(expiry_date) == expiry_date >= now

\* premium_data["expiry_date"] > datetime.utcnow()
PremiumValid(expiry_date) == expiry_date > now

\* a faulty variant: the result defaults to True where the code sets False
is_sudoDefaultTrue(st, user_id, raises) ==
    IF Fresh(st.SUDO_CACHE, user_id)
    THEN [st |-> st, result |-> st.SUDO_CACHE[user_id].result]
    ELSE
    LET lookup == user_id # OWNER_ID /\ DB
        result == IF user_id = OWNER_ID \/ ~lookup THEN TRUE
                  ELSE IF "sudo_users.find_one" \in raises THEN TRUE
                  ELSE user_id \in sudo_users
        log == IF lookup THEN Append(st.log, "sudo_users.find_one") ELSE st.log
    IN  [st |-> [st EXCEPT !.SUDO_CACHE = Put(@, user_id, CacheEntry(result)),
                           !.log = log],
         result |-> result]

\* a faulty variant: the owner is looked up in the store like every user
is_sudoOwnerLookedUp(st, user_id, raises) ==
    IF Fresh(st.SUDO_CACHE, user_id)
    THEN [st |-> st, result |-> st.SUDO_CACHE[user_id].result]
    ELSE
    LET result == /\ DB
                  /\ "sudo_users.find_one" \notin raises
                  /\ user_id \in sudo_users
        log == IF DB THEN Append(st.log, "sudo_users.find_one") ELSE st.log
    IN  [st |-> [st EXCEPT !.SUDO_CACHE = Put(@, user_id, CacheEntry(result)),
                           !.log = log],
         result |-> result]

is_sudo(st, user_id, raises) ==
    IF Fresh(st.SUDO_CACHE, user_id)
    THEN [st |-> st, result |-> st.SUDO_CACHE[user_id].result]
    ELSE
    LET lookup == user_id # OWNER_ID /\ DB
        result == IF user_id = OWNER_ID THEN TRUE
                  ELSE /\ lookup
                       /\ "sudo_users.find_one" \notin raises
                       /\ user_id \in sudo_users
        log == IF lookup THEN Append(st.log, "sudo_users.find_one") ELSE st.log
    IN  [st |-> [st EXCEPT !.SUDO_CACHE = Put(@, user_id, CacheEntry(result)),
                           !.log = log],
         result |-> result]

is_premium(st, user_id, raises) ==
    IF Fresh(st.PREMIUM_CACHE, user_id)
    THEN [st |-> st, result |-> st.PREMIUM_CACHE[user_id].result]
    ELSE
    LET found == /\ DB
                 /\ "premium_users.find_one" \notin raises
                 /\ user_id \in DOMAIN st.premium_users
        result == found /\ PremiumValid(st.premium_users[user_id])
        purge == found /\ ~result
        purged == purge /\ "premium_users.delete_one" \notin raises
        log == st.log
               \o (IF DB THEN <<"premium_users.find_one">> ELSE <<>>)
               \o (IF purge THEN <<"premium_users.delete_one">> ELSE <<>>)
    IN  [st |-> [st EXCEPT !.PREMIUM_CACHE = Put(@, user_id, CacheEntry(result)),
                           !.premium_users = IF purged THEN Del(@, user_id) ELSE @,
                           !.premium_start = IF purged THEN Del(@, user_id) ELSE @,
                           !.log = log],
         result |-> result]

\* a faulty variant: a token row counts only before its expires_at
TokenFoundUnexpired(user_id) ==
    user_id \in DOMAIN tokens /\ tokens[user_id] > now

\* DB.tokens.find_one({"user_id": user_id}) is not None
TokenFound(user_id) == user_id \in DOMAIN tokens

\* the token lookup of has_valid_token, after the sudo and premium checks
token_lookup(st, user_id, raises) ==
    IF Fresh(st.TOKEN_CACHE, user_id)
    THEN [st |-> st, result |-> st.TOKEN_CACHE[user_id].result]
    ELSE
    LET result == /\ DB
                  /\ "tokens.find_one" \notin raises
                  /\ TokenFound(user_id)
        log == IF DB THEN Append(st.log, "tokens.find_one") ELSE st.log
    IN  [st |-> [st EXCEPT !.TOKEN_CACHE = Put(@, user_id, CacheEntry(result)),
                           !.log = log],
         result |-> result]

has_valid_token(st, user_id, raises) ==
    LET s == is_sudo(st, user_id, raises)
    IN  IF s.result THEN s
        ELSE LET p == is_premium(s.st, user_id, raises)
             IN  IF p.result THEN p
                 ELSE token_lookup(p.st, user_id, raises)

\* is_sudo(user_id) or is_premium(user_id) or has_valid_token(user_id)
access_granted(st, user_id, raises) ==
    LET s == is_sudo(st, user_id, raises)
    IN  IF s.result THEN s
        ELSE LET p == is_premium(s.st, user_id, raises)
             IN  IF p.result THEN p
                 ELSE has_valid_token(p.st, user_id, raises)

\* record_user_interaction: an upsert of the caller's row, errors swallowed
record_user_interaction(st, user_id, raises) ==
    IF ~DB THEN st
    ELSE [st EXCEPT !.users = IF "users.update_one" \in raises
                              THEN @ ELSE @ \cup {user_id},
                    !.log = Append(@, "users.update_one")]

\* check_access around help_command or create_quiz: the handler records the
\* interaction and replies
check_access(st, user_id, raises) ==
    LET a == access_granted(st, user_id, raises)
    IN  IF a.result
        THEN [st |-> record_user_interaction(a.st, user_id, raises),
              result |-> TRUE]
        ELSE [st |-> a.st, result |-> FALSE]

(***************************************************************************)
(* add_premium and remove_premium                                          *)
(***************************************************************************)
\* the Telegram username of a user
UsernameOf(u) == <<"u", DigitChars[u + 1]>>

\* str.lstrip('@')
RECURSIVE lstrip_at(_)
lstrip_at(s) == IF s # <<>> /\ Head(s) = "@" THEN lstrip_at(Tail(s)) ELSE s

\* a target that was not resolved: target_user_id is None
NoUser == 0

\* DB.users.find_one({"username": username})
FindByUsername(st, username) ==
    LET hits == {u \in st.users : UsernameOf(u) = username}
    IN  IF hits = {} THEN NoUser ELSE CHOOSE u \in hits : TRUE

\* the command's target: the author of the replied-to message, or the
\* user id or the username given as the first argument
ResolveTarget(st, reply_to, user_ref) ==
    IF reply_to # NoUser THEN reply_to
    ELSE IF IsIntLiteral(user_ref) THEN IntValue(user_ref)
    ELSE IF DB THEN FindByUsername(st, lstrip_at(user_ref))
    ELSE NoUser

\* a faulty variant: a month of 31 days
DurationUnitsLongMonth == <<
    [name |-> <<"h","r">>,             seconds |-> 3600],
    [name |-> <<"h","o","u","r">>,     seconds |-> 3600],
    [name |-> <<"d","a","y">>,         seconds |-> 86400],
    [name |-> <<"m","o","n","t","h">>, seconds |-> 31 * 86400],
    [name |-> <<"y","e","a","r">>,     seconds |-> 365 * 86400] >>

\* duration_map, in seconds
DurationUnits == <<
    [name |-> <<"h","r">>,             seconds |-> 3600],
    [name |-> <<"h","o","u","r">>,     seconds |-> 3600],
    [name |-> <<"d","a","y">>,         seconds |-> 86400],
    [name |-> <<"m","o","n","t","h">>, seconds |-> 30 * 86400],
    [name |-> <<"y","e","a","r">>,     seconds |-> 365 * 86400] >>

\* the number of leading digits of s
RECURSIVE LeadingDigits(_)
LeadingDigits(s) ==
    IF s # <<>> /\ IsDigit(Head(s)) THEN 1 + LeadingDigits(Tail(s)) ELSE 0

\* a faulty variant: the pattern without its closing $
DurationMatchOpenEnd(duration_str) ==
    LET n == LeadingDigits(duration_str)
        rest == SubSeq(duration_str, n + 1, Len(duration_str))
        hits == {k \in 1..Len(DurationUnits) :
                    startswith(rest, DurationUnits[k].name)}
    IN  IF n = 0 \/ hits = {} THEN 0 ELSE CHOOSE k \in hits : TRUE

\* re.match(r'^(\d+)(hr|hour|day|month|year)s?$', duration_str): the unit
\* matched, 0 when there is no match
DurationMatch(duration_str) ==
    LET n == LeadingDigits(duration_str)
        rest == SubSeq(duration_str, n + 1, Len(duration_str))
        hits == {k \in 1..Len(DurationUnits) :
                    \/ rest = DurationUnits[k].name
                    \/ rest = DurationUnits[k].name \o <<"s">>}
    IN  IF n = 0 \/ hits = {} THEN 0 ELSE CHOOSE k \in hits : TRUE

\* duration_map[unit] * amount
DurationSeconds(duration_str) ==
    DurationUnits[DurationMatch(duration_str)].seconds
        * DigitsValue(SubSeq(duration_str, 1, LeadingDigits(duration_str)), 0)

\* a faulty variant: the premium cache entry is kept
ClearPremiumCacheKeep(cache, target_user_id) == cache

\* if target_user_id in PREMIUM_CACHE: del PREMIUM_CACHE[target_user_id]
ClearPremiumCache(cache, target_user_id) == Del(cache, target_user_id)

\* add_premium sent by `caller` with the words `args`, as a reply to a
\* message of `reply_to` (NoUser: not a reply).  An exception of a store
\* operation outside record_user_interaction ends the handler there.
add_premium(st, caller, args, reply_to, raises) ==
    LET r == record_user_interaction(st, caller, raises)
    IN  IF caller # OWNER_ID
        THEN [st |-> r, target |-> NoUser, reply |-> "owner only"]
        ELSE IF Len(args) < 2
        THEN [st |-> r, target |-> NoUser, reply |-> "usage"]
        ELSE
        LET looksUp == reply_to = NoUser /\ DB
            r2 == IF looksUp THEN [r EXCEPT !.log = Append(@, "users.find_one")]
                  ELSE r
            target_user_id == ResolveTarget(r, reply_to, args[1])
            duration_str == lower(args[Len(args)])
        IN  IF looksUp /\ "users.find_one" \in raises
            THEN [st |-> r2, target |-> NoUser, reply |-> "exception"]
            ELSE IF DurationMatch(duration_str) = 0
            THEN [st |-> r2, target |-> target_user_id,
                  reply |-> "invalid duration"]
            ELSE IF target_user_id = NoUser
            THEN [st |-> r2, target |-> NoUser, reply |-> "user not found"]
            ELSE IF ~DB
            THEN [st |-> r2, target |-> target_user_id,
                  reply |-> "database error"]
            ELSE IF "premium_users.update_one" \in raises
            THEN [st |-> [r2 EXCEPT !.log = Append(@, "premium_users.update_one")],
                  target |-> target_user_id, reply |-> "exception"]
            ELSE [st |-> [r2 EXCEPT
                     !.premium_users =
                         Put(@, target_user_id, now + DurationSeconds(duration_str)),
                     !.premium_start = Put(@, target_user_id, now),
                     !.PREMIUM_CACHE = ClearPremiumCache(@, target_user_id),
                     !.log = Append(@, "premium_users.update_one")],
                  target |-> target_user_id, reply |-> "added"]

\* remove_premium sent by `caller` with the words `args`, as a reply to a
\* message of `reply_to` (NoUser: not a reply)
remove_premium(st, caller, args, reply_to, raises) ==
    LET r == record_user_interaction(st, caller, raises)
    IN  IF caller # OWNER_ID
        THEN [st |-> r, target |-> NoUser, reply |-> "owner only"]
        ELSE
        LET byName == /\ reply_to = NoUser /\ args # <<>>
                      /\ ~IsIntLiteral(args[1]) /\ DB
            r2 == IF byName THEN [r EXCEPT !.log = Append(@, "users.find_one")]
                  ELSE r
            target_user_id ==
                IF reply_to = NoUser /\ args = <<>> THEN NoUser
                ELSE ResolveTarget(r, reply_to,
                                   IF args = <<>> THEN <<>> ELSE args[1])
        IN  IF byName /\ "users.find_one" \in raises
            THEN [st |-> r2, target |-> NoUser, reply |-> "exception"]
            ELSE IF target_user_id = NoUser
            THEN [st |-> r2, target |-> NoUser, reply |-> "user not found"]
            ELSE IF ~DB
            THEN [st |-> r2, target |-> target_user_id,
                  reply |-> "database error"]
            ELSE IF "premium_users.delete_one" \in raises
            THEN [st |-> [r2 EXCEPT !.log = Append(@, "premium_users.delete_one")],
                  target |-> target_user_id, reply |-> "exception"]
            ELSE IF target_user_id \in DOMAIN r2.premium_users
            THEN [st |-> [r2 EXCEPT
                     !.premium_users = Del(@, target_user_id),
                     !.premium_start = Del(@, target_user_id),
                     !.PREMIUM_CACHE = ClearPremiumCache(@, target_user_id),
                     !.log = Append(@, "premium_users.delete_one")],
                  target |-> target_user_id, reply |-> "removed"]
            ELSE [st |-> [r2 EXCEPT !.log = Append(@, "premium_users.delete_one")],
                  target |-> target_user_id, reply |-> "not in premium list"]

(***************************************************************************)
(* token_command and start_wrapper.  `tk` is the tokens collection and     *)
(* `tp` the pending map temp_params as the handler found them.             *)
(***************************************************************************)
\* timedelta(hours=24), in seconds
TokenLifetime == 86400

\* token_command of user_id: `param` is what generate_random_param returns,
\* `short_url` whether get_shortened_url returns a link
token_command(st, tp, user_id, param, short_url, raises) ==
    LET r == record_user_interaction(st, user_id, raises)
        s == is_sudo(r, user_id, raises)
        p == IF s.result THEN s ELSE is_premium(s.st, user_id, raises)
    IN  IF p.result
        THEN [st |-> p.st, temp_params |-> tp, reply |-> "premium user"]
        ELSE
        LET h == has_valid_token(p.st, user_id, raises)
        IN  IF h.result
            THEN [st |-> h.st, temp_params |-> tp, reply |-> "already active"]
            ELSE [st |-> h.st, temp_params |-> Put(tp, user_id, param),
                  reply |-> IF short_url THEN "verify link" ELSE "link failed"]

\* a faulty variant: any string is accepted while a verification is pending
ParamPending(tp, user_id, token) == user_id \in DOMAIN tp

\* user_id in temp_params and temp_params[user_id] == token
ParamMatches(tp, user_id, token) ==
    user_id \in DOMAIN tp /\ tp[user_id] = token

\* start: the interaction is recorded, and the welcome text depends on
\* `await is_sudo(...) or await is_premium(...)`
start(st, user_id, raises) ==
    LET s == is_sudo(record_user_interaction(st, user_id, raises), user_id,
                     raises)
    IN  IF s.result THEN s.st ELSE is_premium(s.st, user_id, raises).st

\* a faulty variant: the pending string is kept after the activation
start_wrapperKeepingParam(st, tk, tp, user_id, args, raises) ==
    IF args # <<>> /\ args[1] # ""
    THEN IF ParamMatches(tp, user_id, args[1])
         THEN [st |-> st,
               tokens |-> IF DB THEN Put(tk, user_id, now + TokenLifetime)
                          ELSE tk,
               temp_params |-> tp,
               reply |-> "activated"]
         ELSE [st |-> st, tokens |-> tk, temp_params |-> tp,
               reply |-> "invalid token"]
    ELSE [st |-> start(st, user_id, raises),
          tokens |-> tk, temp_params |-> tp, reply |-> "welcome"]

\* start_wrapper of user_id with the words `args` after /start
start_wrapper(st, tk, tp, user_id, args, raises) ==
    IF args # <<>> /\ args[1] # ""
    THEN IF ParamMatches(tp, user_id, args[1])
         THEN IF DB /\ "tokens.update_one" \in raises
              THEN [st |-> [st EXCEPT !.log = Append(@, "tokens.update_one")],
                    tokens |-> tk, temp_params |-> tp, reply |-> "exception"]
              ELSE [st |-> IF DB
                           THEN [st EXCEPT !.log = Append(@, "tokens.update_one")]
                           ELSE st,
                    tokens |-> IF DB THEN Put(tk, user_id, now + TokenLifetime)
                               ELSE tk,
                    temp_params |-> Del(tp, user_id),
                    reply |-> "activated"]
         ELSE [st |-> st, tokens |-> tk, temp_params |-> tp,
               reply |-> "invalid token"]
    ELSE [st |-> start(st, user_id, raises),
          tokens |-> tk, temp_params |-> tp, reply |-> "welcome"]

(***************************************************************************)
(* The broadcast commands.  `bs` is BROADCAST_STATE as the handler found   *)
(* it.  Time slept is counted in tenths of a second.                       *)
(***************************************************************************)
\* 'message': None
NoMessage == [staged |-> FALSE, text |-> FALSE]

\* broadcast_data of a message, which carries text or a caption, or none
BroadcastData(has_text) == [staged |-> TRUE, text |-> has_text]

\* a faulty variant: a prepare keeps the job the operator already has
FreshJobKeepingStaged(bs, user_id) ==
    IF user_id \in DOMAIN bs THEN bs[user_id]
    ELSE [state |-> "waiting_message", message |-> NoMessage]

\* {'state': 'waiting_message', 'message': None}
FreshJob(bs, user_id) == [state |-> "waiting_message", message |-> NoMessage]

\* a faulty variant: any user may prepare a broadcast
broadcast_commandByAnyone(bs, caller) ==
    [BROADCAST_STATE |-> Put(bs, caller, FreshJob(bs, caller)),
     reply |-> "broadcast mode"]

\* /broadcast of caller
broadcast_command(bs, caller) ==
    IF caller # OWNER_ID
    THEN [BROADCAST_STATE |-> bs, reply |-> "owner only"]
    ELSE [BROADCAST_STATE |-> Put(bs, caller, FreshJob(bs, caller)),
          reply |-> "broadcast mode"]

\* a faulty variant: a message replaces the payload of a ready job
handle_broadcast_messageRestaging(bs, caller, has_text) ==
    IF caller \notin DOMAIN bs
    THEN [BROADCAST_STATE |-> bs, reply |-> ""]
    ELSE [BROADCAST_STATE |->
              Put(bs, caller, [state |-> "ready",
                               message |-> [staged |-> TRUE,
                                            text |-> has_text]]),
          reply |-> "preview"]

\* a message that is not a command, sent by caller
handle_broadcast_message(bs, caller, has_text) ==
    IF caller \notin DOMAIN bs \/ bs[caller].state # "waiting_message"
    THEN [BROADCAST_STATE |-> bs, reply |-> ""]
    ELSE [BROADCAST_STATE |->
              Put(bs, caller, [state |-> "ready",
                               message |-> BroadcastData(has_text)]),
          reply |-> "preview"]

\* a faulty variant: cancel keeps the job
DiscardJobKeep(bs, user_id) == bs

\* if user_id in BROADCAST_STATE: del BROADCAST_STATE[user_id]
DiscardJob(bs, user_id) == Del(bs, user_id)

cancel_broadcast(bs, caller) ==
    IF caller # OWNER_ID
    THEN [BROADCAST_STATE |-> bs, reply |-> "owner only"]
    ELSE [BROADCAST_STATE |-> DiscardJob(bs, caller), reply |-> "cancelled"]

\* what the platform answers to the sends to one recipient:
\*   Success        forward_message returns
\*   ChatNotFound   forward_message raises BadRequest 'chat not found'
\*   Forbidden      forward_message raises another error for good
\*   CopySent       forward_message raises another BadRequest, a
\*                  send_message would return
\*   CopyRefused    forward_message raises another BadRequest, a
\*                  send_message would raise
\*   RateLimited    forward_message raises RetryAfter, a second send would
\*                  return
Answers == {"Success", "ChatNotFound", "Forbidden", "CopySent", "CopyRefused",
            "RateLimited"}

\* await asyncio.sleep(0.1), in tenths of a second
SendPause == 1

\* wait_time = 5, in tenths of a second
RateLimitWait == 50

\* the body of `async for user in users`: the send to recipient r, answered
\* by `answer`; names_retry is whether the text of the RetryAfter error
\* holds the word RetryAfter
SendTo(acc, r, answer, data, names_retry) ==
    IF answer = "Success"
    THEN [acc EXCEPT !.sends = Append(@, r), !.sent_count = @ + 1,
                     !.slept = @ + SendPause]
    ELSE IF answer = "ChatNotFound"
    THEN [acc EXCEPT !.sends = Append(@, r), !.failed_count = @ + 1]
    ELSE IF answer \in {"CopySent", "CopyRefused"}
    THEN IF ~data.text
         THEN [acc EXCEPT !.sends = Append(@, r), !.failed_count = @ + 1]
         ELSE IF answer = "CopySent"
         THEN [acc EXCEPT !.sends = @ \o <<r, r>>, !.sent_count = @ + 1]
         ELSE [acc EXCEPT !.sends = @ \o <<r, r>>, !.failed_count = @ + 1]
    ELSE IF answer = "RateLimited"
    THEN [acc EXCEPT !.sends = Append(@, r), !.failed_count = @ + 1,
                     !.slept = @ + (IF names_retry THEN RateLimitWait ELSE 0)]
    ELSE [acc EXCEPT !.sends = Append(@, r), !.failed_count = @ + 1]

\* async for user in users
RECURSIVE Deliver(_, _, _, _, _)
Deliver(acc, recipients, answers, data, names_retry) ==
    IF recipients = <<>> THEN acc
    ELSE Deliver(SendTo(acc, Head(recipients), answers[Head(recipients)],
                        data, names_retry),
                 Tail(recipients), answers, data, names_retry)

\* DB.users.find({}): the rows of the collection, here in the order of
\* their ids
RECURSIVE Rows(_)
Rows(S) ==
    IF S = {} THEN <<>>
    ELSE LET least == CHOOSE x \in S : \A y \in S : x <= y
         IN  <<least>> \o Rows(S \ {least})

\* a faulty variant: a refused confirm drops the operator's job
AfterRefusalDropped(bs, user_id) == Del(bs, user_id)

\* a refused confirm returns without touching BROADCAST_STATE
AfterRefusal(bs, user_id) == bs

\* the job of user_id is ready to be sent
Prepared(bs, user_id) == user_id \in DOMAIN bs /\ bs[user_id].state = "ready"

\* confirm_broadcast of caller; `answers` is what the platform answers to
\* the sends to each row of DB.users
confirm_broadcast(bs, caller, answers, names_retry, raises) ==
    LET none == [recipients |-> <<>>, answers |-> <<>>, sends |-> <<>>,
                 slept |-> 0, report |-> <<>>]
    IN  IF caller # OWNER_ID
        THEN [BROADCAST_STATE |-> bs, delivery |-> none, reply |-> "owner only"]
        ELSE IF ~Prepared(bs, caller)
        THEN [BROADCAST_STATE |-> AfterRefusal(bs, caller), delivery |-> none,
              reply |-> "no broadcast prepared"]
        ELSE IF ~bs[caller].message.staged
        THEN [BROADCAST_STATE |-> AfterRefusal(bs, caller), delivery |-> none,
              reply |-> "no broadcast message"]
        ELSE IF ~DB
        THEN [BROADCAST_STATE |-> bs, delivery |-> none,
              reply |-> "database error"]
        ELSE IF "users.count_documents" \in raises
        THEN [BROADCAST_STATE |-> bs, delivery |-> none,
              reply |-> "error during broadcast"]
        ELSE IF users = {}
        THEN [BROADCAST_STATE |-> bs, delivery |-> none,
              reply |-> "no users"]
        ELSE
        LET recipients == Rows(users)
            acc == Deliver([sends |-> <<>>, slept |-> 0, sent_count |-> 0,
                            failed_count |-> 0],
                           recipients, answers, bs[caller].message, names_retry)
        IN  [BROADCAST_STATE |-> Del(bs, caller),
             delivery |-> [recipients |-> recipients,
                           answers |-> answers,
                           sends |-> acc.sends,
                           slept |-> acc.slept,
                           report |-> <<[total_users |-> Cardinality(users),
                                         sent_count |-> acc.sent_count,
                                         failed_count |-> acc.failed_count]>>],
             reply |-> "broadcast completed"]

(***************************************************************************)
(* confirm_broadcast, one suspension at a time.  The loop body is SendTo   *)
(* with the progress edit that follows every ProgressEvery-th success.     *)
(***************************************************************************)
\* if sent_count % 20 == 0
ProgressEvery == 20

\* what progress_msg.edit_text does: it returns, raises BadRequest (the
\* status message is gone), or raises another error
Edits == {"ok", "BadRequest", "Error"}

\* the body of `async for user in users` for recipient r: `answer` is what
\* the platform answers to the sends, `edit` what the progress edit does if
\* it is reached
LoopBody(acc, r, answer, data, names_retry, edit) ==
    IF /\ answer = "Success"
       /\ (acc.sent_count + 1) % ProgressEvery = 0
       /\ edit # "ok"
    THEN \* forward_message returned and sent_count was incremented; the
         \* edit raises inside the same try
         LET sent == [acc EXCEPT !.sends = Append(@, r), !.sent_count = @ + 1]
         IN  IF edit = "BadRequest"
             THEN IF data.text
                  THEN [sent EXCEPT !.sends = Append(@, r),
                                    !.sent_count = @ + 1]
                  ELSE [sent EXCEPT !.failed_count = @ + 1]
             ELSE [sent EXCEPT !.failed_count = @ + 1]
    ELSE SendTo(acc, r, answer, data, names_retry)

\* handle_document_wrapper, as far as the caches and the store go:
\* check_access, then handle_document records the interaction and asks
\* is_premium
handle_document_wrapper(st, user_id, raises) ==
    LET a == check_access(st, user_id, raises)
    IN  IF a.result THEN is_premium(a.st, user_id, raises) ELSE a

(***************************************************************************)
(* handle_document: the daily limit of a user who is not premium, and the  *)
(* quiz polls of the questions of the uploaded file.  The questions        *)
(* parse_quiz_file returned are known by their position 1..questions; the  *)
(* date of a datetime is the number of its UTC day.                        *)
(***************************************************************************)
DaySeconds == 24 * 60 * 60

\* datetime.utcnow().date()
Today == now \div DaySeconds

\* if sent_count % 5 == 0
QuizProgressEvery == 5

\* what send_poll does for a question: it returns, raises RetryAfter, or
\* raises another error
QuizAnswers == {"Success", "RetryAfter", "Error"}

\* what msg.edit_text does after every fifth poll
QuizEdits == {"ok", "RetryAfter", "Error"}

\* handle_document has not run
NoUpload == [questions |-> 0, attempted |-> 0, sends |-> <<>>,
             sent_count |-> 0, pauses |-> 0, waits |-> 0]

\* quiz_count as handle_document reads it: the stored count if the row's
\* last_quiz_date is today, else 0
QuizCountToday(rows, user_id) ==
    IF user_id \in DOMAIN rows /\ rows[user_id].last_quiz_date = Today
    THEN rows[user_id].quiz_count
    ELSE 0

\* $set last_quiz_date, $inc quiz_count by sent_count, upsert
CountPolls(rows, user_id, sent_count) ==
    Put(rows, user_id,
        [quiz_count |-> (IF user_id \in DOMAIN rows
                         THEN rows[user_id].quiz_count ELSE 0) + sent_count,
         last_quiz_date |-> Today])

\* the body of the loop for question q: a poll that is sent is counted,
\* followed by the progress edit on every fifth and by the pause of 0.05 s;
\* RetryAfter, of the poll or of the edit, is waited for and the loop goes
\* on to the next question; another error is logged
PollStep(acc, q, answer, edit) ==
    IF answer = "Success"
    THEN LET sent == [acc EXCEPT !.sends = Append(@, q),
                                 !.sent_count = @ + 1]
         IN  IF sent.sent_count % QuizProgressEvery = 0 /\ edit # "ok"
             THEN IF edit = "RetryAfter" THEN [sent EXCEPT !.waits = @ + 1]
                  ELSE sent
             ELSE [sent EXCEPT !.pauses = @ + 1]
    ELSE IF answer = "RetryAfter" THEN [acc EXCEPT !.waits = @ + 1]
    ELSE acc

\* for question, options, correct_id, explanation in valid_questions
RECURSIVE PollLoop(_, _, _, _, _)
PollLoop(acc, q, n, answers, edit) ==
    IF q > n THEN acc
    ELSE PollLoop(PollStep(acc, q, answers[q], edit), q + 1, n, answers, edit)

\* handle_document returns before the loop
NoPolls(st, rows, reply) ==
    [st |-> st, rows |-> rows, reply |-> reply, upload |-> NoUpload]

\* handle_document_wrapper of user_id for a file whose name ends with .txt
\* or not (`txt`) and in which parse_quiz_file finds `questions` valid
\* questions; `answers` is what send_poll does for each, `edit` what the
\* progress edit does.  `rows` are the quiz fields of DB.users.
handle_document(st, rows, user_id, txt, questions, answers, edit, raises) ==
    LET a == check_access(st, user_id, raises)
        p == is_premium(a.st, user_id, raises)
        is_prem == p.result
        quiz_count == QuizCountToday(rows, user_id)
        remaining_quota == DAILY_QUIZ_LIMIT - quiz_count
        attempted == IF ~is_prem /\ questions > remaining_quota
                     THEN remaining_quota ELSE questions
        d == PollLoop([NoUpload EXCEPT !.questions = questions,
                                       !.attempted = attempted],
                      1, attempted, answers, edit)
    IN  IF ~a.result THEN NoPolls(a.st, rows, "restricted")
        ELSE IF ~is_prem /\ DB /\ quiz_count >= DAILY_QUIZ_LIMIT
        THEN NoPolls(p.st, rows, "limit reached")
        ELSE IF ~txt THEN NoPolls(p.st, rows, "not a txt file")
        ELSE IF ~is_prem /\ questions > 0 /\ ~DB
        THEN \* quiz_count has not been assigned
             NoPolls(p.st, rows, "error processing file")
        ELSE IF ~is_prem /\ questions > 0 /\ remaining_quota <= 0
        THEN NoPolls(p.st, rows, "limit reached")
        ELSE IF questions = 0 THEN NoPolls(p.st, rows, "no valid questions")
        ELSE [st |-> p.st,
              rows |-> IF ~is_prem /\ DB
                       THEN CountPolls(rows, user_id, d.sent_count)
                       ELSE rows,
              reply |-> "sent",
              upload |-> d]

(***************************************************************************)
(* The state after construction: empty caches, and a store holding what    *)
(* earlier runs of the bot left in it.                                     *)
(***************************************************************************)
NoCall == [op |-> "none", user |-> NoUser, target |-> NoUser,
           result |-> FALSE, reply |-> "", log |-> <<>>]

\* the expiry dates of the premium rows found in the store at start: one
\* already passed, one that passes while the bot runs
StoredExpiries == {0, CACHE_EXPIRY - 1}

\* the expires_at of the token rows found in the store at start
StoredTokenExpiries == {CACHE_EXPIRY - 1}

InitParserIdle ==
    /\ content = <<>>
    /\ blocks = <<>>
    /\ parsed = FALSE
    /\ valid_questions = <<>>
    /\ errors = <<>>

\* no verification is pending
InitTokenIdle == temp_params = <<>>

\* confirm_broadcast has not run
NoDelivery == [recipients |-> <<>>, answers |-> <<>>, sends |-> <<>>,
               slept |-> 0, report |-> <<>>]

InitBroadcastIdle ==
    /\ BROADCAST_STATE = <<>>
    /\ delivery = NoDelivery

\* no handler is running
Idle == [op |-> "none"]

\* no row of DB.users has quiz fields
InitQuizIdle ==
    /\ quiz_rows = <<>>
    /\ polls_today = <<>>
    /\ upload = NoUpload

\* no update is waiting and no handler is running
InitDispatchIdle ==
    /\ inbox = <<>>
    /\ running = Idle
    /\ prepared_users = {}
    /\ tasks = {}
    /\ entitled = "none"
    /\ evicted_at = <<>>
    /\ InitQuizIdle

InitAccessIdle ==
    /\ now = 0
    /\ DB = TRUE
    /\ sudo_users = {}
    /\ premium_users = <<>>
    /\ premium_start = <<>>
    /\ tokens = <<>>
    /\ users = {}
    /\ SUDO_CACHE = <<>>
    /\ TOKEN_CACHE = <<>>
    /\ PREMIUM_CACHE = <<>>
    /\ last = NoCall

(***************************************************************************)
(* The parser's specification: a document is drawn, then parsed.           *)
(***************************************************************************)
InitParser ==
    /\ content \in Documents
    /\ blocks = <<>>
    /\ parsed = FALSE
    /\ valid_questions = <<>>
    /\ errors = <<>>
    /\ InitAccessIdle
    /\ InitTokenIdle
    /\ InitBroadcastIdle
    /\ InitDispatchIdle

Parse ==
    /\ ~parsed
    /\ blocks' = split(content, <<NL, NL>>)
    /\ LET r == parse_quiz_file(content)
       IN  /\ valid_questions' = r[1]
           /\ errors' = r[2]
    /\ parsed' = TRUE
    /\ UNCHANGED content
    /\ UNCHANGED <<accessVars, tokenVars, broadcastVars, dispatchVars,
                   raceVars, historyVars, quizVars>>

NextParser == Parse

SpecParser == InitParser /\ [][NextParser]_vars

(***************************************************************************)
(* The access specification: resolver calls, gated commands and premium    *)
(* administration, one handler at a time, while the clock advances and the *)
(* store evicts expired tokens.                                            *)
(***************************************************************************)
InitAccess ==
    /\ InitParserIdle
    /\ now = 0
    /\ DB = TRUE
    /\ sudo_users \in SUBSET (Users \ {OWNER_ID})
    /\ premium_users \in UNION {[S -> StoredExpiries] : S \in SUBSET Subjects}
    /\ premium_start = [u \in DOMAIN premium_users |-> 0]
    /\ tokens \in UNION {[S -> StoredTokenExpiries] : S \in SUBSET Subjects}
    /\ users = {OWNER_ID}
    /\ SUDO_CACHE = <<>>
    /\ TOKEN_CACHE = <<>>
    /\ PREMIUM_CACHE = <<>>
    /\ last = NoCall
    /\ InitTokenIdle
    /\ InitBroadcastIdle
    /\ InitDispatchIdle

\* the handler's effects become the state
Effects(st) ==
    /\ SUDO_CACHE' = st.SUDO_CACHE
    /\ TOKEN_CACHE' = st.TOKEN_CACHE
    /\ PREMIUM_CACHE' = st.PREMIUM_CACHE
    /\ premium_users' = st.premium_users
    /\ premium_start' = st.premium_start
    /\ users' = st.users
    /\ UNCHANGED <<now, DB, sudo_users, tokens>>
    /\ UNCHANGED <<parserVars, tokenVars, broadcastVars, dispatchVars,
                   raceVars, historyVars, quizVars>>

\* a resolver or a gated command has returned r for user_id
Commit(op, user_id, r) ==
    /\ Effects(r.st)
    /\ last' = [op |-> op, user |-> user_id, target |-> user_id,
                result |-> r.result, reply |-> "", log |-> r.st.log]

\* an administration command of caller has answered r
CommitAdmin(op, caller, r) ==
    /\ Effects(r.st)
    /\ last' = [op |-> op, user |-> caller, target |-> r.target,
                result |-> r.reply \in {"added", "removed"},
                reply |-> r.reply, log |-> r.st.log]

\* the store operations that raise during a handler: none, or all of them
Raises == {{}, StoreOps}

IsSudo(user_id) ==
    \E raises \in Raises :
        Commit("is_sudo", user_id, is_sudo(Current, user_id, raises))

IsPremium(user_id) ==
    \E raises \in Raises \cup {{"premium_users.delete_one"}} :
        Commit("is_premium", user_id, is_premium(Current, user_id, raises))

HasValidToken(user_id) ==
    \E raises \in Raises :
        Commit("has_valid_token", user_id,
               has_valid_token(Current, user_id, raises))

CheckAccess(user_id) ==
    \E raises \in Raises :
        Commit("check_access", user_id, check_access(Current, user_id, raises))

\* the words after /add and /rem
Arg_2 == <<"2">>
Arg_u2 == <<"@", "u", "2">>
Arg_u7 == <<"@", "u", "7">>
Arg_1HR == <<"1", "H", "R">>
Arg_abc == <<"a", "b", "c">>

\* /add 2 1HR, /add @u2 1HR, /add @u7 1HR, /add 2 abc, /add 1HR as a
\* reply to user 2, and /add 2 1HR while the store raises
AddInputs == {
    [args |-> <<Arg_2, Arg_1HR>>,  reply_to |-> NoUser, raises |-> {}],
    [args |-> <<Arg_u2, Arg_1HR>>, reply_to |-> NoUser, raises |-> {}],
    [args |-> <<Arg_u7, Arg_1HR>>, reply_to |-> NoUser, raises |-> {}],
    [args |-> <<Arg_2, Arg_abc>>,  reply_to |-> NoUser, raises |-> {}],
    [args |-> <<Arg_1HR>>,         reply_to |-> 2,      raises |-> {}],
    [args |-> <<Arg_2, Arg_1HR>>,  reply_to |-> NoUser, raises |-> StoreOps] }

\* /rem 2, /rem @u2, /rem, /rem as a reply to user 2, and /rem 2 while the
\* store raises
RemoveInputs == {
    [args |-> <<Arg_2>>,  reply_to |-> NoUser, raises |-> {}],
    [args |-> <<Arg_u2>>, reply_to |-> NoUser, raises |-> {}],
    [args |-> <<>>,       reply_to |-> NoUser, raises |-> {}],
    [args |-> <<>>,       reply_to |-> 2,      raises |-> {}],
    [args |-> <<Arg_2>>,  reply_to |-> NoUser, raises |-> StoreOps] }

\* the words of a command matter only when the owner sends it: any other
\* caller is refused before they are read
InputsOf(caller, inputs) ==
    IF caller = OWNER_ID THEN inputs
    ELSE {CHOOSE in \in inputs : in.raises = {} /\ in.reply_to # NoUser}

AddPremium(caller) ==
    \E in \in InputsOf(caller, AddInputs) :
        CommitAdmin("add_premium", caller,
               add_premium(Current, caller, in.args, in.reply_to, in.raises))

RemovePremium(caller) ==
    \E in \in InputsOf(caller, RemoveInputs) :
        CommitAdmin("remove_premium", caller,
               remove_premium(Current, caller, in.args, in.reply_to, in.raises))

\* time passes: one second less than a cache lifetime, or a whole one
Tick ==
    /\ \E d \in {CACHE_EXPIRY - 1, CACHE_EXPIRY} :
          /\ now + d <= MaxLifetimes * CACHE_EXPIRY
          /\ now' = now + d
    /\ UNCHANGED <<DB, sudo_users, premium_users, premium_start, tokens,
                   users, SUDO_CACHE, TOKEN_CACHE, PREMIUM_CACHE, last>>
    /\ UNCHANGED <<parserVars, tokenVars, broadcastVars, dispatchVars,
                   raceVars, historyVars, quizVars>>

\* the TTL index of DB.tokens: the store removes a token whose expires_at
\* has passed, at a time of its own
EvictToken(user_id) ==
    /\ user_id \in DOMAIN tokens
    /\ tokens[user_id] <= now
    /\ tokens' = Del(tokens, user_id)
    /\ evicted_at' = Put(evicted_at, user_id, now)
    /\ UNCHANGED <<now, DB, sudo_users, premium_users, premium_start, users,
                   SUDO_CACHE, TOKEN_CACHE, PREMIUM_CACHE, last>>
    /\ UNCHANGED <<parserVars, tokenVars, broadcastVars, dispatchVars,
                   raceVars, quizVars>>

NextAccess ==
    \/ \E u \in Subjects : IsSudo(u)
    \/ \E u \in Subjects : IsPremium(u)
    \/ \E u \in Subjects : HasValidToken(u)
    \/ \E u \in Subjects : CheckAccess(u)
    \/ \E u \in Users : AddPremium(u)
    \/ \E u \in Users : RemovePremium(u)
    \/ \E u \in Subjects : EvictToken(u)
    \/ Tick

SpecAccess == InitAccess /\ [][NextAccess]_vars

(***************************************************************************)
(* The grant specification: the owner sends /add with durations of every   *)
(* shape, to a store that answers or to no store at all, while is_premium  *)
(* fills the cache and the clock advances.                                 *)
(***************************************************************************)
\* the duration words: accepted ones in several letter cases, with and
\* without the plural, and words the pattern rejects
DurationWords == {
    <<"2", "h", "r">>,
    <<"1", "H", "O", "U", "R", "S">>,
    <<"0", "2", "D", "a", "y">>,
    <<"1", "m", "o", "n", "t", "h">>,
    <<"3", "y", "e", "a", "r", "s">>,
    <<"1", "0", "h", "r", "s">>,
    <<"a", "b", "c">>,
    <<"5", "w", "e", "e", "k", "s">>,
    <<"h", "r">>,
    <<"2">>,
    <<"2", "h", "r", "s", "s">>,
    <<"2", " ", "h", "r">>,
    <<"-", "1", "d", "a", "y">>,
    <<"1", "d", "a", "y", "2">> }

\* the duration words sent with every way of naming the target
TargetedWords == {<<"2", "h", "r">>, <<"a", "b", "c">>}

\* /add 2 <duration> for every duration word; and for some of them
\* /add @u2 <duration>, /add @u7 <duration>, and as a reply to user 2
\* /add abc <duration> and /add <duration>
GrantInputs ==
    {[args |-> <<Arg_2, d>>, reply_to |-> NoUser, raises |-> {}] :
        d \in DurationWords}
    \cup {[args |-> <<ref, d>>, reply_to |-> NoUser, raises |-> {}] :
             ref \in {Arg_u2, Arg_u7}, d \in TargetedWords}
    \cup {[args |-> <<Arg_abc, d>>, reply_to |-> 2, raises |-> {}] :
             d \in TargetedWords}
    \cup {[args |-> <<d>>, reply_to |-> 2, raises |-> {}] : d \in TargetedWords}

InitGrant ==
    /\ InitParserIdle
    /\ now = 0
    /\ DB \in BOOLEAN
    /\ sudo_users = {}
    /\ premium_users \in UNION {[S -> StoredExpiries] : S \in SUBSET Subjects}
    /\ premium_start = [u \in DOMAIN premium_users |-> 0]
    /\ tokens = <<>>
    /\ users \in {{OWNER_ID}, Users}
    /\ SUDO_CACHE = <<>>
    /\ TOKEN_CACHE = <<>>
    /\ PREMIUM_CACHE = <<>>
    /\ last = NoCall
    /\ InitTokenIdle
    /\ InitBroadcastIdle
    /\ InitDispatchIdle

\* the step is /add of the owner with the input `in`
GrantStep(in) ==
    CommitAdmin("add_premium", OWNER_ID,
                add_premium(Current, OWNER_ID, in.args, in.reply_to, in.raises))

Grant == \E in \in GrantInputs : GrantStep(in)

NextGrant ==
    \/ Grant
    \/ \E u \in Subjects : IsPremium(u)
    \/ Tick

SpecGrant == InitGrant /\ [][NextGrant]_vars

(***************************************************************************)
(* The token specification: users ask for a verification link and come     *)
(* back through /start with a string, with a store or with none.           *)
(***************************************************************************)
\* the strings generate_random_param returns
Params == {"p1", "p2"}

\* the words after /start: none, or a string
StartArgs == {<<>>} \cup {<<x>> : x \in Params}

InitToken ==
    /\ InitParserIdle
    /\ now = 0
    /\ DB \in BOOLEAN
    /\ sudo_users \in SUBSET Subjects
    /\ premium_users = <<>>
    /\ premium_start = <<>>
    /\ tokens = <<>>
    /\ users = {}
    /\ SUDO_CACHE = <<>>
    /\ TOKEN_CACHE = <<>>
    /\ PREMIUM_CACHE = <<>>
    /\ last = NoCall
    /\ InitTokenIdle
    /\ InitBroadcastIdle
    /\ InitDispatchIdle

\* the effects of a token handler become the state
TokenEffects(op, user_id, st, tk, tp, reply) ==
    /\ SUDO_CACHE' = st.SUDO_CACHE
    /\ TOKEN_CACHE' = st.TOKEN_CACHE
    /\ PREMIUM_CACHE' = st.PREMIUM_CACHE
    /\ premium_users' = st.premium_users
    /\ premium_start' = st.premium_start
    /\ users' = st.users
    /\ tokens' = tk
    /\ temp_params' = tp
    /\ last' = [op |-> op, user |-> user_id, target |-> user_id,
                result |-> reply = "activated", reply |-> reply,
                log |-> st.log]
    /\ UNCHANGED <<now, DB, sudo_users>>
    /\ UNCHANGED <<parserVars, broadcastVars, dispatchVars,
                   raceVars, historyVars, quizVars>>

\* the step is /token of user_id
TokenCommandStep(user_id, param, short_url, raises) ==
    LET r == token_command(Current, temp_params, user_id, param, short_url,
                           raises)
    IN  TokenEffects("token_command", user_id, r.st, tokens, r.temp_params,
                     r.reply)

\* the step is /start of user_id with the words args
StartStep(user_id, args, raises) ==
    LET r == start_wrapper(Current, tokens, temp_params, user_id, args, raises)
    IN  TokenEffects("start_wrapper", user_id, r.st, r.tokens, r.temp_params,
                     r.reply)

TokenCommand(user_id) ==
    \E param \in Params : \E short_url \in BOOLEAN : \E raises \in Raises :
        TokenCommandStep(user_id, param, short_url, raises)

StartWrapper(user_id) ==
    \E args \in StartArgs : \E raises \in Raises :
        StartStep(user_id, args, raises)

NextToken ==
    \/ \E u \in Subjects : TokenCommand(u)
    \/ \E u \in Subjects : StartWrapper(u)
    \/ \E u \in Subjects : HasValidToken(u)
    \/ Tick

SpecToken == InitToken /\ [][NextToken]_vars

(***************************************************************************)
(* The outage specification: the resolvers are called for every user, the  *)
(* owner included, with no store at all or with a store whose lookups      *)
(* raise from time to time.                                                *)
(***************************************************************************)
InitOutage ==
    /\ InitParserIdle
    /\ now = 0
    /\ DB \in BOOLEAN
    /\ sudo_users \in SUBSET Users
    /\ premium_users \in
           UNION {[S -> {CACHE_EXPIRY - 1}] : S \in SUBSET Subjects}
    /\ premium_start = [u \in DOMAIN premium_users |-> 0]
    /\ tokens \in UNION {[S -> StoredTokenExpiries] : S \in SUBSET Subjects}
    /\ users = {}
    /\ SUDO_CACHE = <<>>
    /\ TOKEN_CACHE = <<>>
    /\ PREMIUM_CACHE = <<>>
    /\ last = NoCall
    /\ InitTokenIdle
    /\ InitBroadcastIdle
    /\ InitDispatchIdle

NextOutage ==
    \/ \E u \in Users : IsSudo(u)
    \/ \E u \in Users : IsPremium(u)
    \/ \E u \in Users : HasValidToken(u)
    \/ Tick

SpecOutage == InitOutage /\ [][NextOutage]_vars

(***************************************************************************)
(* The broadcast specification: the owner and another user send the        *)
(* broadcast commands and plain messages in any order; a confirmed         *)
(* broadcast is sent to the rows of DB.users, each of which the platform   *)
(* answers in one of the ways of Answers.                                  *)
(***************************************************************************)
\* the ids of the rows DB.users may hold
Recipients == 1..MaxRecipients

InitBroadcast ==
    /\ InitParserIdle
    /\ now = 0
    /\ DB \in BOOLEAN
    /\ sudo_users = {}
    /\ premium_users = <<>>
    /\ premium_start = <<>>
    /\ tokens = <<>>
    /\ users \in SUBSET Recipients
    /\ SUDO_CACHE = <<>>
    /\ TOKEN_CACHE = <<>>
    /\ PREMIUM_CACHE = <<>>
    /\ last = NoCall
    /\ InitTokenIdle
    /\ InitBroadcastIdle
    /\ InitDispatchIdle

\* the effects of a broadcast handler become the state
BroadcastEffects(op, caller, bs, d, reply) ==
    /\ BROADCAST_STATE' = bs
    /\ delivery' = d
    /\ last' = [op |-> op, user |-> caller, target |-> NoUser,
                result |-> reply = "broadcast completed", reply |-> reply,
                log |-> <<>>]
    /\ UNCHANGED <<now, DB, sudo_users, premium_users, premium_start, tokens,
                   users, SUDO_CACHE, TOKEN_CACHE, PREMIUM_CACHE>>
    /\ UNCHANGED <<parserVars, tokenVars, dispatchVars, raceVars, historyVars, quizVars>>

BroadcastCommand(caller) ==
    LET r == broadcast_command(BROADCAST_STATE, caller)
    IN  BroadcastEffects("broadcast_command", caller, r.BROADCAST_STATE,
                         delivery, r.reply)

HandleBroadcastMessage(caller) ==
    \E has_text \in BOOLEAN :
        LET r == handle_broadcast_message(BROADCAST_STATE, caller, has_text)
        IN  BroadcastEffects("handle_broadcast_message", caller,
                             r.BROADCAST_STATE, delivery, r.reply)

CancelBroadcast(caller) ==
    LET r == cancel_broadcast(BROADCAST_STATE, caller)
    IN  BroadcastEffects("cancel_broadcast", caller, r.BROADCAST_STATE,
                         delivery, r.reply)

\* the step is /confirm_broadcast of caller
ConfirmStep(caller, answers, names_retry, raises) ==
    LET r == confirm_broadcast(BROADCAST_STATE, caller, answers, names_retry,
                               raises)
    IN  BroadcastEffects("confirm_broadcast", caller, r.BROADCAST_STATE,
                         r.delivery, r.reply)

\* the platform is asked only when the confirm gets to its sends
ReachesSends(caller) ==
    /\ caller = OWNER_ID
    /\ Prepared(BROADCAST_STATE, caller)
    /\ DB
    /\ users # {}

ConfirmBroadcast(caller) ==
    IF ReachesSends(caller)
    THEN \/ \E answers \in [users -> Answers] : \E names_retry \in BOOLEAN :
                ConfirmStep(caller, answers, names_retry, {})
         \/ ConfirmStep(caller, <<>>, FALSE, StoreOps)
    ELSE \E raises \in Raises : ConfirmStep(caller, <<>>, FALSE, raises)

NextBroadcast ==
    \/ \E u \in Users : BroadcastCommand(u)
    \/ \E u \in Users : HandleBroadcastMessage(u)
    \/ \E u \in Users : ConfirmBroadcast(u)
    \/ \E u \in Users : CancelBroadcast(u)

SpecBroadcast == InitBroadcast /\ [][NextBroadcast]_vars

(***************************************************************************)
(* The delivery specification: the updates of the owner and of another     *)
(* user arrive at any moment and wait in the inbox; the application, built *)
(* without concurrent_updates, gives the next update to its handler only   *)
(* when the handler before it has returned.  confirm_broadcast advances    *)
(* one recipient at a time; the other handlers are short and taken whole.  *)
(***************************************************************************)
\* the updates that arrive: the owner's broadcast commands, plain messages
\* with or without text, a text document, and /start of the other user
FlightUpdates ==
    {[kind |-> k, user |-> OWNER_ID, has_text |-> FALSE] :
        k \in {"broadcast", "confirm_broadcast", "cancel_broadcast",
               "text_document"}}
    \cup {[kind |-> "message", user |-> OWNER_ID, has_text |-> t] :
             t \in BOOLEAN}
    \cup {[kind |-> "start", user |-> 2, has_text |-> FALSE]}

\* what the platform answers to the sends of a delivery
FlightAnswers == {"Success", "ChatNotFound"}

InitFlight ==
    /\ InitParserIdle
    /\ now = 0
    /\ DB \in BOOLEAN
    /\ sudo_users = {}
    /\ premium_users = <<>>
    /\ premium_start = <<>>
    /\ tokens = <<>>
    /\ users \in SUBSET Recipients
    /\ SUDO_CACHE = <<>>
    /\ TOKEN_CACHE = <<>>
    /\ PREMIUM_CACHE = <<>>
    /\ last = NoCall
    /\ InitTokenIdle
    /\ InitBroadcastIdle
    /\ InitDispatchIdle

\* confirm_broadcast is suspended in its loop
Flying == running.op = "confirm_broadcast"

\* an update arrives; `late` is history: the update arrived while a
\* delivery of the job the owner has prepared last was in flight
Receive ==
    /\ Len(inbox) < MaxInbox
    /\ \E u \in FlightUpdates :
          inbox' = Append(inbox, [kind |-> u.kind, user |-> u.user,
                                  has_text |-> u.has_text, late |-> Flying])
    /\ UNCHANGED <<parserVars, accessVars, tokenVars, broadcastVars,
                   running, prepared_users, raceVars, historyVars, quizVars>>

\* the update fetcher awaits each handler: the next update is taken when
\* no handler is running
Takes(kind) ==
    /\ running = Idle
    /\ inbox # <<>>
    /\ Head(inbox).kind = kind

\* a handler has returned or suspended: its effects become the state
FlightEffects(st, bs, d, run, prepared, op, caller, reply) ==
    /\ SUDO_CACHE' = st.SUDO_CACHE
    /\ TOKEN_CACHE' = st.TOKEN_CACHE
    /\ PREMIUM_CACHE' = st.PREMIUM_CACHE
    /\ premium_users' = st.premium_users
    /\ premium_start' = st.premium_start
    /\ users' = st.users
    /\ BROADCAST_STATE' = bs
    /\ delivery' = d
    /\ running' = run
    /\ prepared_users' = prepared
    /\ UNCHANGED <<raceVars, historyVars, quizVars>>
    /\ last' = [op |-> op, user |-> caller, target |-> NoUser,
                result |-> reply = "broadcast completed", reply |-> reply,
                log |-> st.log]
    /\ UNCHANGED <<now, DB, sudo_users, tokens>>
    /\ UNCHANGED <<parserVars, tokenVars>>

\* CommandHandler("start", start_wrapper)
DispatchStart ==
    /\ Takes("start")
    /\ inbox' = Tail(inbox)
    /\ \E raises \in Raises :
          LET r == start_wrapper(Current, tokens, temp_params,
                                 Head(inbox).user, <<>>, raises)
          IN  FlightEffects(r.st, BROADCAST_STATE, delivery, Idle,
                            prepared_users, "start_wrapper",
                            Head(inbox).user, r.reply)

\* MessageHandler(filters.Document.TEXT, handle_document_wrapper), which
\* is registered before the handler of the other messages
DispatchDocument ==
    /\ Takes("text_document")
    /\ inbox' = Tail(inbox)
    /\ \E raises \in Raises :
          LET r == handle_document_wrapper(Current, Head(inbox).user, raises)
          IN  FlightEffects(r.st, BROADCAST_STATE, delivery, Idle,
                            prepared_users, "handle_document_wrapper",
                            Head(inbox).user, "")

\* the updates that wait, none of them late any more
Early(q) == [i \in DOMAIN q |-> [q[i] EXCEPT !.late = FALSE]]

\* CommandHandler("broadcast", broadcast_command)
DispatchBroadcast ==
    /\ Takes("broadcast")
    /\ inbox' = IF Head(inbox).user = OWNER_ID THEN Early(Tail(inbox))
                ELSE Tail(inbox)
    /\ LET r == broadcast_command(BROADCAST_STATE, Head(inbox).user)
       IN  FlightEffects(Current, r.BROADCAST_STATE, delivery, Idle,
                         IF r.reply = "broadcast mode" THEN users
                         ELSE prepared_users,
                         "broadcast_command", Head(inbox).user, r.reply)

\* MessageHandler(filters.ALL & ~filters.COMMAND, handle_broadcast_message)
DispatchMessage ==
    /\ Takes("message")
    /\ inbox' = Tail(inbox)
    /\ LET r == handle_broadcast_message(BROADCAST_STATE, Head(inbox).user,
                                         Head(inbox).has_text)
       IN  FlightEffects(Current, r.BROADCAST_STATE, delivery, Idle,
                         IF r.reply = "preview" THEN users
                         ELSE prepared_users,
                         "handle_broadcast_message", Head(inbox).user,
                         r.reply)

\* CommandHandler("cancel_broadcast", cancel_broadcast)
DispatchCancel ==
    /\ Takes("cancel_broadcast")
    /\ inbox' = Tail(inbox)
    /\ LET r == cancel_broadcast(BROADCAST_STATE, Head(inbox).user)
       IN  FlightEffects(Current, r.BROADCAST_STATE, delivery, Idle,
                         prepared_users, "cancel_broadcast",
                         Head(inbox).user, r.reply)

\* confirm_broadcast has announced total_users and opened the cursor
Started(caller) ==
    [op |-> "confirm_broadcast", user |-> caller, todo |-> Rows(users),
     total_users |-> Cardinality(users),
     data |-> BROADCAST_STATE[caller].message,
     sent_count |-> 0, failed_count |-> 0, paused |-> FALSE]

\* CommandHandler("confirm_broadcast", confirm_broadcast): the handler is
\* refused or fails at count_documents, or it gets to its loop
DispatchConfirm ==
    /\ Takes("confirm_broadcast")
    /\ inbox' = Tail(inbox)
    /\ LET caller == Head(inbox).user
       IN  \/ /\ ReachesSends(caller)
              /\ FlightEffects(Current, BROADCAST_STATE,
                               [NoDelivery EXCEPT !.recipients = Rows(users)],
                               Started(caller), prepared_users,
                               "confirm_broadcast", caller,
                               "starting broadcast")
           \/ \E raises \in Raises :
                 /\ ReachesSends(caller) => raises # {}
                 /\ LET r == confirm_broadcast(BROADCAST_STATE, caller, <<>>,
                                               FALSE, raises)
                    IN  FlightEffects(Current, r.BROADCAST_STATE, r.delivery,
                                      Idle, prepared_users,
                                      "confirm_broadcast", caller, r.reply)

\* the counters of the delivery in flight
Counters ==
    [sends |-> delivery.sends, slept |-> delivery.slept,
     sent_count |-> running.sent_count,
     failed_count |-> running.failed_count]

\* the progress edit is reached by the next success
ReachesEdit == (running.sent_count + 1) % ProgressEvery = 0

\* one turn of the loop: the cursor gives the next row and the body runs
AttemptStep(answer, names_retry, edit) ==
    /\ Flying
    /\ running.todo # <<>>
    /\ LET r == Head(running.todo)
           next == LoopBody(Counters, r, answer, running.data, names_retry,
                            edit)
       IN  /\ delivery' = [delivery EXCEPT
                               !.answers = Put(@, r, answer),
                               !.sends = next.sends,
                               !.slept = next.slept]
           /\ running' = [running EXCEPT
                              !.todo = Tail(@),
                              !.sent_count = next.sent_count,
                              !.failed_count = next.failed_count,
                              !.paused = next.slept > delivery.slept]
    /\ UNCHANGED <<parserVars, accessVars, tokenVars, BROADCAST_STATE, inbox,
                   prepared_users, raceVars, historyVars, quizVars>>

Attempt ==
    /\ Flying
    /\ \E answer \in FlightAnswers :
          \E edit \in IF ReachesEdit /\ answer = "Success" THEN Edits
                      ELSE {"ok"} :
              AttemptStep(answer, FALSE, edit)

\* the delivery in flight ends with the outer `except Exception`, which
\* the call `cause` has raised
Aborted(cause) ==
    /\ running' = Idle
    /\ last' = [op |-> "confirm_broadcast", user |-> running.user,
                target |-> NoUser, result |-> FALSE,
                reply |-> "error during broadcast", log |-> <<cause>>]
    /\ UNCHANGED <<now, DB, sudo_users, premium_users, premium_start, tokens,
                   users, SUDO_CACHE, TOKEN_CACHE, PREMIUM_CACHE>>
    /\ UNCHANGED <<parserVars, tokenVars, broadcastVars, inbox,
                   prepared_users, raceVars, historyVars, quizVars>>

\* the cursor raises when it is asked for the next row: the store has
\* failed since the cursor was opened (the rows come in batches of a size
\* the driver chooses; here every row may be the first of a batch)
CursorRaises ==
    /\ Flying
    /\ Aborted("users.find")

\* the cursor is exhausted, the final edit returns and the job is deleted
Finish ==
    /\ Flying
    /\ running.todo = <<>>
    /\ running' = Idle
    /\ delivery' = [delivery EXCEPT
                        !.report = <<[total_users |-> running.total_users,
                                      sent_count |-> running.sent_count,
                                      failed_count |-> running.failed_count]>>]
    /\ BROADCAST_STATE' = Del(BROADCAST_STATE, running.user)
    /\ last' = [op |-> "confirm_broadcast", user |-> running.user,
                target |-> NoUser, result |-> TRUE,
                reply |-> "broadcast completed", log |-> <<>>]
    /\ UNCHANGED <<now, DB, sudo_users, premium_users, premium_start, tokens,
                   users, SUDO_CACHE, TOKEN_CACHE, PREMIUM_CACHE>>
    /\ UNCHANGED <<parserVars, tokenVars, inbox, prepared_users, raceVars, historyVars, quizVars>>

\* the cursor is exhausted and the final edit raises
FinalEditRaises ==
    /\ Flying
    /\ running.todo = <<>>
    /\ Aborted("progress_msg.edit_text")

NextFlight ==
    \/ Receive
    \/ DispatchStart
    \/ DispatchDocument
    \/ DispatchBroadcast
    \/ DispatchMessage
    \/ DispatchCancel
    \/ DispatchConfirm
    \/ Attempt
    \/ CursorRaises
    \/ Finish
    \/ FinalEditRaises

SpecFlight == InitFlight /\ [][NextFlight]_vars

(***************************************************************************)
(* The progress specification: the owner has confirmed a ready job while   *)
(* DB.users holds enough rows for the progress edit to be reached; at most *)
(* one recipient is gone, the others receive the message.                  *)
(***************************************************************************)
InitProgress ==
    /\ InitParserIdle
    /\ now = 0
    /\ DB = TRUE
    /\ sudo_users = {}
    /\ premium_users = <<>>
    /\ premium_start = <<>>
    /\ tokens = <<>>
    /\ users = 1..ProgressUsers
    /\ SUDO_CACHE = <<>>
    /\ TOKEN_CACHE = <<>>
    /\ PREMIUM_CACHE = <<>>
    /\ last = [NoCall EXCEPT !.op = "handle_broadcast_message",
                             !.user = OWNER_ID, !.reply = "preview"]
    /\ InitTokenIdle
    /\ \E has_text \in BOOLEAN :
          BROADCAST_STATE =
              Put(<<>>, OWNER_ID, [state |-> "ready",
                                   message |-> BroadcastData(has_text)])
    /\ delivery = NoDelivery
    /\ inbox = <<[kind |-> "confirm_broadcast", user |-> OWNER_ID,
                  has_text |-> FALSE, late |-> FALSE]>>
    /\ running = Idle
    /\ prepared_users = users
    /\ tasks = {}
    /\ entitled = "none"
    /\ evicted_at = <<>>
    /\ InitQuizIdle

ProgressAttempt ==
    /\ Flying
    /\ \E answer \in IF running.failed_count = 0 THEN FlightAnswers
                      ELSE {"Success"} :
          \E edit \in IF ReachesEdit /\ answer = "Success" THEN Edits
                      ELSE {"ok"} :
              AttemptStep(answer, FALSE, edit)

NextProgress ==
    \/ DispatchConfirm
    \/ ProgressAttempt
    \/ CursorRaises
    \/ Finish
    \/ FinalEditRaises

SpecProgress == InitProgress /\ [][NextProgress]_vars

(***************************************************************************)
(* The premium lookup and the owner's grant commands as coroutines.  A      *)
(* coroutine runs from one await to the next without interruption; at an   *)
(* await of a store operation the operation acts on the store and the      *)
(* coroutine stays suspended until it is resumed.  The store answers every *)
(* operation and the clock stands still, so a grant neither expires nor a  *)
(* cache entry lapses between two steps.                                   *)
(***************************************************************************)

\* /myplan of user 2, /add 2 1HR and /rem 2 of the owner
RaceUpdates == {[kind |-> "my_plan_command", user |-> 2, target |-> 2],
                [kind |-> "add_premium", user |-> OWNER_ID, target |-> 2],
                [kind |-> "remove_premium", user |-> OWNER_ID, target |-> 2]}

\* the store holds no grant for user 2, or one that has passed
InitRace ==
    /\ InitParserIdle
    /\ now = 0
    /\ DB = TRUE
    /\ sudo_users = {}
    /\ premium_users \in {<<>>, Put(<<>>, 2, 0)}
    /\ premium_start = premium_users
    /\ tokens = <<>>
    /\ users = {}
    /\ SUDO_CACHE = <<>>
    /\ TOKEN_CACHE = <<>>
    /\ PREMIUM_CACHE = <<>>
    /\ last = NoCall
    /\ InitTokenIdle
    /\ InitBroadcastIdle
    /\ InitDispatchIdle

\* an add_premium or remove_premium has been started and has not returned
Administering ==
    \E t \in tasks : t.op \in {"add_premium", "remove_premium"}

\* an update arrives and waits for the handlers before it; `during` is
\* history: an add_premium or remove_premium was suspended at that moment
RaceReceive ==
    /\ Len(inbox) < MaxInbox
    /\ \E u \in RaceUpdates :
          inbox' = Append(inbox, [kind |-> u.kind, user |-> u.user,
                                  target |-> u.target,
                                  during |-> Administering])
    /\ UNCHANGED <<parserVars, accessVars, tokenVars, broadcastVars,
                   running, prepared_users, raceVars, historyVars, quizVars>>

\* a faulty variant: every update is handled in a task of its own
CanStartConcurrently == TRUE

\* the application processes one update at a time: a handler is started
\* when the handler before it has returned
CanStart == tasks = {}

\* the handler of the first waiting update starts: it has recorded the
\* sender and is at its first step after that.  `expects` is history: the
\* entitlement the last completed add_premium or remove_premium gave the
\* target, "any" where none has completed or one is under way.
Begin ==
    /\ CanStart
    /\ inbox # <<>>
    /\ LET u == Head(inbox)
           admin == u.kind \in {"add_premium", "remove_premium"}
           t == [op |-> u.kind, user |-> u.user, target |-> u.target,
                 pc |-> "called", row |-> <<>>, during |-> u.during,
                 expects |-> IF admin \/ Administering THEN "any"
                             ELSE IF entitled = "none" THEN "any"
                             ELSE entitled]
       IN  /\ tasks' = {IF admin THEN [o EXCEPT !.expects = "any"] ELSE o :
                            o \in tasks} \cup {t}
           /\ users' = users \cup {u.user}
    /\ inbox' = Tail(inbox)
    /\ UNCHANGED <<parserVars, now, DB, sudo_users, premium_users,
                   premium_start, tokens, SUDO_CACHE, TOKEN_CACHE,
                   PREMIUM_CACHE, last, tokenVars, broadcastVars, running,
                   prepared_users, entitled, historyVars, quizVars>>

\* the coroutine t moves to its next await
Suspend(t, pc, row) ==
    tasks' = (tasks \ {t}) \cup {[t EXCEPT !.pc = pc, !.row = row]}

\* the coroutine t returns
Return(t, op, result, reply) ==
    /\ tasks' = tasks \ {t}
    /\ last' = [op |-> op, user |-> t.user, target |-> t.target,
                result |-> result, reply |-> reply,
                log |-> IF t.during THEN <<"waited">> ELSE <<>>]

\* is_premium: the cache is read; on a miss find_one reads the store
PremiumLookup(t) ==
    /\ t.op = "my_plan_command"
    /\ t.pc = "called"
    /\ IF Fresh(PREMIUM_CACHE, t.target)
       THEN /\ Return(t, "is_premium", PREMIUM_CACHE[t.target].result,
                      "cached")
            /\ UNCHANGED PREMIUM_CACHE
       ELSE /\ Suspend(t, "find_one",
                       IF t.target \in DOMAIN premium_users
                       THEN <<premium_users[t.target]>> ELSE <<>>)
            /\ UNCHANGED <<PREMIUM_CACHE, last>>
    /\ UNCHANGED <<parserVars, now, DB, sudo_users, premium_users,
                   premium_start, tokens, users, SUDO_CACHE, TOKEN_CACHE,
                   tokenVars, broadcastVars, dispatchVars, entitled, historyVars, quizVars>>

\* is_premium resumes with premium_data: a grant that has passed is
\* deleted by its _id, otherwise the result is cached and returned
PremiumFound(t) ==
    /\ t.op = "my_plan_command"
    /\ t.pc = "find_one"
    /\ IF t.row # <<>> /\ ~PremiumValid(t.row[1])
       THEN /\ Suspend(t, "delete_one", t.row)
            /\ premium_users' = Del(premium_users, t.target)
            /\ premium_start' = Del(premium_start, t.target)
            /\ UNCHANGED <<PREMIUM_CACHE, last>>
       ELSE /\ PREMIUM_CACHE' = Put(PREMIUM_CACHE, t.target,
                                    CacheEntry(t.row # <<>>))
            /\ Return(t, "is_premium", t.row # <<>>, "looked up")
            /\ UNCHANGED <<premium_users, premium_start>>
    /\ UNCHANGED <<parserVars, now, DB, sudo_users, tokens, users,
                   SUDO_CACHE, TOKEN_CACHE, tokenVars, broadcastVars,
                   dispatchVars, entitled, historyVars, quizVars>>

\* is_premium resumes after the delete: False is cached and returned
PremiumPurged(t) ==
    /\ t.op = "my_plan_command"
    /\ t.pc = "delete_one"
    /\ PREMIUM_CACHE' = Put(PREMIUM_CACHE, t.target, CacheEntry(FALSE))
    /\ Return(t, "is_premium", FALSE, "purged")
    /\ UNCHANGED <<parserVars, now, DB, sudo_users, premium_users,
                   premium_start, tokens, users, SUDO_CACHE, TOKEN_CACHE,
                   tokenVars, broadcastVars, dispatchVars, entitled, historyVars, quizVars>>

\* add_premium: update_one with upsert writes the grant
AddUpsert(t) ==
    /\ t.op = "add_premium"
    /\ t.pc = "called"
    /\ premium_users' = Put(premium_users, t.target,
                            now + DurationSeconds(lower(Arg_1HR)))
    /\ premium_start' = Put(premium_start, t.target, now)
    /\ Suspend(t, "update_one", <<>>)
    /\ UNCHANGED <<parserVars, now, DB, sudo_users, tokens, users,
                   SUDO_CACHE, TOKEN_CACHE, PREMIUM_CACHE, last, tokenVars,
                   broadcastVars, dispatchVars, entitled, historyVars, quizVars>>

\* add_premium resumes: the cache entry is deleted, the user and the owner
\* are told, the handler returns
AddDone(t) ==
    /\ t.op = "add_premium"
    /\ t.pc = "update_one"
    /\ PREMIUM_CACHE' = ClearPremiumCache(PREMIUM_CACHE, t.target)
    /\ Return(t, "add_premium", TRUE, "added")
    /\ entitled' = "granted"
    /\ UNCHANGED <<parserVars, now, DB, sudo_users, premium_users,
                   premium_start, tokens, users, SUDO_CACHE, TOKEN_CACHE,
                   tokenVars, broadcastVars, dispatchVars, historyVars, quizVars>>

\* remove_premium: delete_one deletes the grant if there is one; row is
\* result.deleted_count
RemoveDelete(t) ==
    /\ t.op = "remove_premium"
    /\ t.pc = "called"
    /\ Suspend(t, "delete_one",
               IF t.target \in DOMAIN premium_users THEN <<1>> ELSE <<>>)
    /\ premium_users' = Del(premium_users, t.target)
    /\ premium_start' = Del(premium_start, t.target)
    /\ UNCHANGED <<parserVars, now, DB, sudo_users, tokens, users,
                   SUDO_CACHE, TOKEN_CACHE, PREMIUM_CACHE, last, tokenVars,
                   broadcastVars, dispatchVars, entitled, historyVars, quizVars>>

\* remove_premium resumes: if a grant was deleted the cache entry is
\* deleted too; the owner is told either way
RemoveDone(t) ==
    /\ t.op = "remove_premium"
    /\ t.pc = "delete_one"
    /\ IF t.row # <<>>
       THEN /\ PREMIUM_CACHE' = ClearPremiumCache(PREMIUM_CACHE, t.target)
            /\ Return(t, "remove_premium", TRUE, "removed")
            /\ entitled' = "revoked"
       ELSE /\ Return(t, "remove_premium", FALSE, "not in list")
            /\ UNCHANGED <<PREMIUM_CACHE, entitled, historyVars, quizVars>>
    /\ UNCHANGED <<parserVars, now, DB, sudo_users, premium_users,
                   premium_start, tokens, users, SUDO_CACHE, TOKEN_CACHE,
                   tokenVars, broadcastVars, dispatchVars, historyVars, quizVars>>

NextRace ==
    \/ RaceReceive
    \/ Begin
    \/ \E t \in tasks : PremiumLookup(t)
    \/ \E t \in tasks : PremiumFound(t)
    \/ \E t \in tasks : PremiumPurged(t)
    \/ \E t \in tasks : AddUpsert(t)
    \/ \E t \in tasks : AddDone(t)
    \/ \E t \in tasks : RemoveDelete(t)
    \/ \E t \in tasks : RemoveDone(t)

SpecRace == InitRace /\ [][NextRace]_vars

(***************************************************************************)
(* The ageing specification: no grant is added; the grants and tokens in   *)
(* the store pass their expiry, the store evicts the tokens, the owner may *)
(* remove a grant, and the resolvers are called while the clock runs       *)
(* through several cache lifetimes.                                        *)
(***************************************************************************)
InitStale ==
    /\ InitParserIdle
    /\ now = 0
    /\ DB = TRUE
    /\ sudo_users = {}
    /\ premium_users \in
           UNION {[S -> {CACHE_EXPIRY - 1}] : S \in SUBSET Subjects}
    /\ premium_start = [u \in DOMAIN premium_users |-> 0]
    /\ tokens \in UNION {[S -> StoredTokenExpiries] : S \in SUBSET Subjects}
    /\ users = {OWNER_ID}
    /\ SUDO_CACHE = <<>>
    /\ TOKEN_CACHE = <<>>
    /\ PREMIUM_CACHE = <<>>
    /\ last = NoCall
    /\ InitTokenIdle
    /\ InitBroadcastIdle
    /\ InitDispatchIdle

\* time passes: one second less than a cache lifetime, or a whole one
Age ==
    /\ \E d \in {CACHE_EXPIRY - 1, CACHE_EXPIRY} :
          /\ now + d <= MaxAges * CACHE_EXPIRY
          /\ now' = now + d
    /\ UNCHANGED <<DB, sudo_users, premium_users, premium_start, tokens,
                   users, SUDO_CACHE, TOKEN_CACHE, PREMIUM_CACHE, last>>
    /\ UNCHANGED <<parserVars, tokenVars, broadcastVars, dispatchVars,
                   raceVars, historyVars, quizVars>>

NextStale ==
    \/ \E u \in Subjects : IsPremium(u)
    \/ \E u \in Subjects : HasValidToken(u)
    \/ RemovePremium(OWNER_ID)
    \/ \E u \in Subjects : EvictToken(u)
    \/ Age

SpecStale == InitStale /\ [][NextStale]_vars

(***************************************************************************)
(* The quiz specification: user 2, who has access as a sudo user and is     *)
(* premium or not, uploads files one after the other while the days pass;  *)
(* the store answers.                                                      *)
(***************************************************************************)
InitQuiz ==
    /\ InitParserIdle
    /\ now = 0
    /\ DB = TRUE
    /\ sudo_users = Subjects
    /\ premium_users \in
           UNION {[S -> {(MaxDays + 1) * DaySeconds}] : S \in SUBSET Subjects}
    /\ premium_start = [u \in DOMAIN premium_users |-> 0]
    /\ tokens = <<>>
    /\ users = {}
    /\ SUDO_CACHE = <<>>
    /\ TOKEN_CACHE = <<>>
    /\ PREMIUM_CACHE = <<>>
    /\ last = NoCall
    /\ InitTokenIdle
    /\ InitBroadcastIdle
    /\ InitDispatchIdle

\* the effects of an upload of user_id become the state
UploadEffects(user_id, r) ==
        /\ SUDO_CACHE' = r.st.SUDO_CACHE
        /\ TOKEN_CACHE' = r.st.TOKEN_CACHE
        /\ PREMIUM_CACHE' = r.st.PREMIUM_CACHE
        /\ premium_users' = r.st.premium_users
        /\ premium_start' = r.st.premium_start
        /\ users' = r.st.users
        /\ quiz_rows' = r.rows
        /\ upload' = r.upload
        /\ polls_today' =
               IF user_id \in DOMAIN premium_users THEN polls_today
               ELSE Put(polls_today, user_id,
                        (IF user_id \in DOMAIN polls_today
                         THEN polls_today[user_id] ELSE 0)
                            + r.upload.sent_count)
        /\ last' = [op |-> "handle_document", user |-> user_id,
                    target |-> user_id, result |-> r.reply = "sent",
                    reply |-> r.reply, log |-> r.st.log]
        /\ UNCHANGED <<now, DB, sudo_users, tokens>>
        /\ UNCHANGED <<parserVars, tokenVars, broadcastVars, dispatchVars,
                       raceVars, historyVars>>

\* one upload, handled from its arrival to the last reply
UploadStep(user_id, txt, questions, answers, edit) ==
    UploadEffects(user_id, handle_document(Current, quiz_rows, user_id, txt,
                                           questions, answers, edit, {}))

\* what send_poll does for the questions of one upload: every poll is
\* sent, or one of them raises
PollAnswers(questions) ==
    {[q \in 1..questions |-> IF q = f THEN kind ELSE "Success"] :
        f \in 0..questions, kind \in QuizAnswers \ {"Success"}}

\* what the progress edit does, for the uploads that reach it
EditsOf(questions) ==
    IF questions >= QuizProgressEvery THEN QuizEdits ELSE {"ok"}

\* a file that is not a .txt file is not parsed
QuestionsOf(txt) == IF txt THEN 0..MaxQuestions ELSE {0}

HandleDocument(user_id) ==
    \E txt \in BOOLEAN : \E questions \in QuestionsOf(txt) :
    \E answers \in PollAnswers(questions) : \E edit \in EditsOf(questions) :
        UploadStep(user_id, txt, questions, answers, edit)

\* midnight UTC passes
NextDay ==
    /\ Today < MaxDays
    /\ now' = now + DaySeconds
    /\ polls_today' = <<>>
    /\ UNCHANGED <<DB, sudo_users, premium_users, premium_start, tokens,
                   users, SUDO_CACHE, TOKEN_CACHE, PREMIUM_CACHE, last>>
    /\ UNCHANGED <<quiz_rows, upload>>
    /\ UNCHANGED <<parserVars, tokenVars, broadcastVars, dispatchVars,
                   raceVars, historyVars>>

NextQuiz ==
    \/ \E u \in Subjects : HandleDocument(u)
    \/ NextDay

SpecQuiz == InitQuiz /\ [][NextQuiz]_vars

(***************************************************************************)
(* Claims about parse_quiz_file.  The results are attributed to the blocks *)
(* of the document through what the parser returns: an error carries the   *)
(* number of its block, and the questions are those of the non-blank       *)
(* blocks without an error, in document order.                             *)
(***************************************************************************)
Blocks == blocks

LinesOf(i) == split(Blocks[i], <<NL>>)

NonBlank(i) == strip(Blocks[i]) # <<>>

ErrorsOf(i) == {k \in 1..Len(errors) : errors[k].i = i}

QuestionBlocks == {i \in 1..Len(Blocks) : NonBlank(i) /\ ErrorsOf(i) = {}}

\* the position in valid_questions of the question of block i
Rank(i) == Cardinality({j \in QuestionBlocks : j <= i})

\* every question belongs to one block without an error, and carries the
\* text of that block's first line
Attributed ==
    /\ Len(valid_questions) = Cardinality(QuestionBlocks)
    /\ \A i \in QuestionBlocks :
          valid_questions[Rank(i)][1] = strip(LinesOf(i)[1])

\* block i is six lines, the sixth being exactly 'Answer: k'
WellFormed(i, k) ==
    /\ Len(LinesOf(i)) = 6
    /\ LinesOf(i)[6] = AnswerPrefix \o <<" ", DigitChars[k + 1]>>

\* C1: every block of exactly 6 lines whose 6th line is 'Answer: k', k in
\* 1..4, yields exactly one question, with the block's lines 2..5 as its
\* options in order and correct index k-1, and no error entry.
C1_WellFormedBlockYieldsQuestion ==
    parsed =>
        \A i \in 1..Len(Blocks) : \A k \in 1..4 :
            WellFormed(i, k) =>
                /\ ErrorsOf(i) = {}
                /\ Attributed
                /\ valid_questions[Rank(i)][2]
                       = [m \in 1..4 |-> strip(LinesOf(i)[m + 1])]
                /\ valid_questions[Rank(i)][3] = k - 1
                /\ valid_questions[Rank(i)][4] = NoExplanation

\* a second block with answer 4 is parsed after a first block in error
C1_Witness ==
    /\ parsed
    /\ Len(Blocks) = 2
    /\ WellFormed(2, 4)
    /\ ErrorsOf(1) # {}
    /\ Len(valid_questions) = 1
    /\ valid_questions[1][3] = 3

\* C2: every non-blank block whose line count is not 6 or 7 yields no
\* question and exactly one error entry (the line-count error, with the
\* count), and every block after it is still parsed: each later non-blank
\* block has its own error or its own question.
C2_BadLineCountYieldsOneError ==
    parsed =>
        \A i \in 1..Len(Blocks) :
            (NonBlank(i) /\ Len(LinesOf(i)) \notin {6, 7}) =>
                /\ Cardinality(ErrorsOf(i)) = 1
                /\ \A k \in ErrorsOf(i) :
                      errors[k] = ParseError(i, "Invalid line count",
                                             Len(LinesOf(i)))
                /\ Attributed
                /\ \A j \in (i + 1)..Len(Blocks) :
                      NonBlank(j) =>
                          Cardinality(ErrorsOf(j)) = 1 \/ j \in QuestionBlocks

\* an 8-line block in error, followed by a block that gives a question
C2_Witness ==
    /\ parsed
    /\ Len(Blocks) = 2
    /\ Len(LinesOf(1)) = 8
    /\ Cardinality(ErrorsOf(1)) = 1
    /\ Len(valid_questions) = 1
    /\ valid_questions[1][1] = <<"Y">>

\* the answer line of a block of 6 or 7 lines, as the parser reads it
AnswerLine(i) == strip(LinesOf(i)[6])

NoPrefix(i) == ~startswith(lower(AnswerLine(i)), lower(AnswerPrefix))

Remainder(i) == SubSeq(AnswerLine(i), Len(AnswerPrefix) + 1, Len(AnswerLine(i)))

NotInteger(i) == ~NoPrefix(i) /\ ~IsIntLiteral(Remainder(i))

OutOfRange(i) ==
    /\ ~NoPrefix(i)
    /\ IsIntLiteral(Remainder(i))
    /\ IntValue(Remainder(i)) \notin 1..4

\* C3: for a block of 6 or 7 lines, each violation of the answer line (no
\* case-insensitive 'answer:' prefix, remainder not an integer, integer
\* outside 1..4) yields exactly one error entry for the block and no
\* question; the block yields a question only when no violation occurs.
C3_AnswerLineViolations ==
    parsed =>
        \A i \in 1..Len(Blocks) :
            (NonBlank(i) /\ Len(LinesOf(i)) \in {6, 7}) =>
                /\ Attributed
                /\ NoPrefix(i) =>
                      /\ Cardinality(ErrorsOf(i)) = 1
                      /\ \A k \in ErrorsOf(i) :
                            errors[k].msg = "Missing 'Answer:' prefix"
                /\ NotInteger(i) =>
                      /\ Cardinality(ErrorsOf(i)) = 1
                      /\ \A k \in ErrorsOf(i) :
                            errors[k].msg = "Malformed answer line"
                /\ OutOfRange(i) =>
                      /\ Cardinality(ErrorsOf(i)) = 1
                      /\ \A k \in ErrorsOf(i) :
                            errors[k].msg = "Invalid answer number"
                /\ (i \in QuestionBlocks) <=>
                      ~(NoPrefix(i) \/ NotInteger(i) \/ OutOfRange(i))

\* an out-of-range answer (0) beside a block whose answer line passes
C3_Witness ==
    /\ parsed
    /\ Len(Blocks) = 2
    /\ Len(LinesOf(1)) = 7
    /\ OutOfRange(1)
    /\ Cardinality(ErrorsOf(1)) = 1
    /\ Len(LinesOf(2)) = 7
    /\ 2 \in QuestionBlocks
    /\ Len(valid_questions) = 1

\* the errors of a block parsed alone, numbered as block i
Renumbered(es, i) == [k \in 1..Len(es) |-> [es[k] EXCEPT !.i = i]]

RECURSIVE QuestionsBlockwise(_)
QuestionsBlockwise(n) ==
    IF n = 0 THEN <<>>
    ELSE QuestionsBlockwise(n - 1) \o parse_quiz_file(Blocks[n])[1]

RECURSIVE ErrorsBlockwise(_)
ErrorsBlockwise(n) ==
    IF n = 0 THEN <<>>
    ELSE ErrorsBlockwise(n - 1) \o Renumbered(parse_quiz_file(Blocks[n])[2], n)

\* C4: blocks are processed independently: what the parser returns for a
\* document is, in document order, what it returns for each block parsed
\* alone (an error carrying the block's number), so the result for block k
\* is a function of block k's text and no other block changes it.
C4_BlocksIndependent ==
    parsed =>
        /\ valid_questions = QuestionsBlockwise(Len(Blocks))
        /\ errors = ErrorsBlockwise(Len(Blocks))

\* a question after a malformed block, and an error after a question
C4_Witness ==
    /\ parsed
    /\ Len(Blocks) = 2
    /\ Len(errors) = 1
    /\ errors[1].i = 1
    /\ Len(valid_questions) = 1
    /\ valid_questions[1][1] = <<"P">>

\* the places of the document where exactly one blank line separates two
\* non-blank blocks
SingleBlankAfter(i) ==
    /\ i < Len(Blocks)
    /\ NonBlank(i) /\ NonBlank(i + 1)
    /\ Blocks[i][Len(Blocks[i])] # NL
    /\ Blocks[i + 1][1] # NL

RECURSIVE JoinBlocks(_, _, _)
\* the document with `extra` added to the separator after block `at`
JoinBlocks(bs, at, extra) ==
    IF Len(bs) = 1 THEN bs[1]
    ELSE bs[1] \o <<NL, NL>> \o (IF at = 1 THEN extra ELSE <<>>)
               \o JoinBlocks(Tail(bs), at - 1, extra)

\* C5: replacing the single blank line between two blocks by a longer run
\* of blank lines leaves the returned questions and the number of errors
\* unchanged.
C5_BlankRunInvariant ==
    parsed =>
        \A i \in 1..Len(Blocks) :
            SingleBlankAfter(i) =>
                \A extra \in {<<NL>>, <<NL, NL>>, <<NL, NL, NL>>} :
                    LET r == parse_quiz_file(JoinBlocks(Blocks, i, extra))
                    IN  /\ r[1] = valid_questions
                        /\ Len(r[2]) = Len(errors)


(***************************************************************************)
(* Claims about the access resolver and the premium administration.  A     *)
(* step of a handler is named by its action formula, so what the handler   *)
(* found before the call and what it left after it are both in view.       *)
(***************************************************************************)
\* the store answers every operation of the call
StoreAnswers == {}

\* the store operations a call made
Reads(log) == {log[i] : i \in DOMAIN log}

\* what the store holds for user_id at this moment
StoredSudo(user_id) == user_id = OWNER_ID \/ user_id \in sudo_users
StoredPremium(user_id) ==
    user_id \in DOMAIN premium_users /\ premium_users[user_id] > now
StoredToken(user_id) == user_id \in DOMAIN tokens

\* no cache holds a live entry for user_id
ColdCaches(user_id) ==
    /\ ~Fresh(SUDO_CACHE, user_id)
    /\ ~Fresh(PREMIUM_CACHE, user_id)
    /\ ~Fresh(TOKEN_CACHE, user_id)

\* has_valid_token(user_id) gets as far as its token lookup
ReachesTokenLookup(user_id, raises) ==
    LET s == is_sudo(Current, user_id, raises)
    IN  /\ ~s.result
        /\ ~is_premium(s.st, user_id, raises).result

\* the step is a gated command of user_id during which the store answers
GatedStep(user_id) ==
    Commit("check_access", user_id, check_access(Current, user_id, StoreAnswers))

\* the step is has_valid_token(user_id) during which the store answers
TokenStep(user_id) ==
    Commit("has_valid_token", user_id,
           has_valid_token(Current, user_id, StoreAnswers))

C6_GateStep(u) ==
    GatedStep(u) =>
        /\ last'.result <=>
               \/ is_sudo(Current, u, StoreAnswers).result
               \/ is_premium(Current, u, StoreAnswers).result
               \/ has_valid_token(Current, u, StoreAnswers).result
        /\ (u \notin users) => (last'.result <=> u \in users')
        /\ ColdCaches(u) =>
               (last'.result <=>
                    StoredSudo(u) \/ StoredPremium(u) \/ StoredToken(u))

C6_TokenStep(u) ==
    TokenStep(u) =>
        /\ \/ is_sudo(Current, u, StoreAnswers).result
           \/ is_premium(Current, u, StoreAnswers).result
           => last'.result
        /\ ReachesTokenLookup(u, StoreAnswers) /\ ~Fresh(TOKEN_CACHE, u)
           => (last'.result <=> StoredToken(u))

\* C6: a gated command runs its handler (which records the interaction) if
\* and only if is_sudo, is_premium or has_valid_token holds for the caller;
\* has_valid_token is True whenever is_sudo or is_premium is, and otherwise,
\* on a token-cache miss, True exactly when the store holds a token row for
\* the caller, whatever its expires_at; a caller for whom none of the three
\* holds does not have the handler run.  Stated of the calls during which
\* the store answers.
C6_AccessGate ==
    [][\A u \in Subjects : C6_GateStep(u) /\ C6_TokenStep(u)]_vars

\* C6 witness: user 2, neither sudo nor premium, has run a gated command on
\* the strength of a token row whose expires_at has passed
C6_Witness ==
    /\ last.op = "check_access" /\ last.user = 2 /\ last.result
    /\ 2 \in users
    /\ 2 \notin sudo_users
    /\ ~StoredPremium(2)
    /\ 2 \in DOMAIN tokens /\ tokens[2] <= now
    /\ 2 \in DOMAIN TOKEN_CACHE /\ TOKEN_CACHE[2] = CacheEntry(TRUE)
    /\ "tokens.find_one" \in Reads(last.log)

\* the entry of u was written less than CACHE_EXPIRY seconds ago, an entry
\* being written with expiry = write time + CACHE_EXPIRY
Young(cache, u) ==
    /\ u \in DOMAIN cache
    /\ now - (cache[u].expiry - CACHE_EXPIRY) < CACHE_EXPIRY

\* a resolver call that consults `cache` for u, reading the store with
\* `lookup` on a miss, behaves as a cache with lifetime CACHE_EXPIRY
CachedCall(cache, cacheAfter, u, lookup) ==
    IF Young(cache, u)
    THEN /\ last'.result = cache[u].result
         /\ lookup \notin Reads(last'.log)
         /\ cacheAfter = cache
    ELSE /\ lookup \in Reads(last'.log)
         /\ u \in DOMAIN cacheAfter
         /\ cacheAfter[u] = [result |-> last'.result,
                             expiry |-> now + CACHE_EXPIRY]

C7_Step(u, raises) ==
    /\ Commit("is_sudo", u, is_sudo(Current, u, raises))
       => CachedCall(SUDO_CACHE, SUDO_CACHE', u, "sudo_users.find_one")
    /\ Commit("is_premium", u, is_premium(Current, u, raises))
       => CachedCall(PREMIUM_CACHE, PREMIUM_CACHE', u, "premium_users.find_one")
    /\ /\ Commit("has_valid_token", u, has_valid_token(Current, u, raises))
       /\ ReachesTokenLookup(u, raises)
       => CachedCall(TOKEN_CACHE, TOKEN_CACHE', u, "tokens.find_one")

\* C7: is_sudo, is_premium and the token lookup of has_valid_token each
\* answer from their cache, without reading the store, while the entry is
\* younger than CACHE_EXPIRY seconds, and read the store again on the first
\* call once CACHE_EXPIRY seconds have passed, rewriting the entry with
\* expiry = time of writing + CACHE_EXPIRY.  An entry's expiry is therefore
\* its write time plus CACHE_EXPIRY, and "younger" is now < expiry.
C7_CacheLifetime ==
    [][\A u \in Subjects : \A raises \in Raises : C7_Step(u, raises)]_vars

\* every cache entry was written at most now, with expiry = write time +
\* CACHE_EXPIRY
EntriesDated(cache) ==
    \A u \in DOMAIN cache :
        cache[u].expiry - CACHE_EXPIRY \in 0..now

\* C7 witness: is_premium(2) has answered from an entry written 59 seconds
\* earlier, without any store operation
C7_Witness ==
    /\ last.op = "is_premium" /\ last.user = 2
    /\ last.log = <<>>
    /\ now = CACHE_EXPIRY - 1
    /\ 2 \in DOMAIN PREMIUM_CACHE
    /\ PREMIUM_CACHE[2] = [result |-> last.result, expiry |-> CACHE_EXPIRY]
    /\ EntriesDated(PREMIUM_CACHE)

\* the step is is_premium(user_id) during which the store answers
PremiumStep(user_id) ==
    Commit("is_premium", user_id, is_premium(Current, user_id, StoreAnswers))

C8_Step(u) ==
    PremiumStep(u) /\ ~Fresh(PREMIUM_CACHE, u) =>
        IF u \notin DOMAIN premium_users
        THEN ~last'.result /\ premium_users' = premium_users
        ELSE IF premium_users[u] <= now
        THEN ~last'.result /\ premium_users' = Del(premium_users, u)
        ELSE last'.result /\ premium_users' = premium_users

\* a premium row appears only through a grant
C8_OnlyGrantRestores(u) ==
    u \notin DOMAIN premium_users /\ u \in DOMAIN premium_users'
    => /\ last'.op = "add_premium"
       /\ last'.reply = "added"
       /\ last'.target = u

\* C8: on a cache miss is_premium(u) returns False when the store holds no
\* premium row for u, returns False and deletes the row when its
\* expiry_date <= now, and returns True and leaves the row alone when its
\* expiry_date > now; a purged row stays absent until add_premium grants
\* anew.  Stated of the calls during which the store answers.
C8_LazyExpiry ==
    [][\A u \in Users : C8_Step(u) /\ C8_OnlyGrantRestores(u)]_vars

\* C8 witness: is_premium(2) has found an expired row, deleted it and
\* answered False
C8_Witness ==
    /\ last.op = "is_premium" /\ last.user = 2 /\ ~last.result
    /\ last.log = <<"premium_users.find_one", "premium_users.delete_one">>
    /\ 2 \notin DOMAIN premium_users
    /\ 2 \in DOMAIN PREMIUM_CACHE
    /\ PREMIUM_CACHE[2] = CacheEntry(FALSE)

\* C9: when a gated command of a sudo user who has a premium row with
\* expiry_date <= now returns, access was granted and the expired row has
\* been deleted.
C9_SudoPurgesExpired ==
    [][\A u \in Subjects :
          /\ GatedStep(u)
          /\ ~Fresh(SUDO_CACHE, u)
          /\ StoredSudo(u)
          /\ u \in DOMAIN premium_users /\ premium_users[u] <= now
          => /\ last'.result
             /\ u \notin DOMAIN premium_users']_vars

\* the premium entitlement is_premium reports for user_id when called next,
\* the store answering
NextIsPremium(user_id) == is_premium(Current, user_id, StoreAnswers).result

\* the outcome of the next gated command of user_id, the store answering
NextGated(user_id) == check_access(Current, user_id, StoreAnswers).result

\* the last handler was a premium mutation for user_id that the store
\* carried out
Mutated(user_id) ==
    /\ last.op \in {"add_premium", "remove_premium"}
    /\ last.reply \in {"added", "removed", "not in premium list"}
    /\ last.target = user_id

\* C10: once add_premium or remove_premium for u has completed, the store
\* answering and handlers running one at a time, PREMIUM_CACHE holds no entry
\* for u written before the mutation (a grant or a removal leaves no entry
\* at all), so the next is_premium(u) returns the entitlement the store
\* holds after the mutation, and the next gated command of u is granted when
\* that entitlement is premium.  A removal that found no row to remove
\* changes nothing and leaves the cache alone; is_premium(u) is False after
\* it all the same.
C10_MutationInvalidates ==
    \A u \in Subjects :
        Mutated(u) =>
            /\ last.reply \in {"added", "removed"}
               => u \notin DOMAIN PREMIUM_CACHE
            /\ NextIsPremium(u) <=> StoredPremium(u)
            /\ StoredPremium(u) => NextGated(u)
            /\ last.op = "remove_premium" => ~NextIsPremium(u)

\* C10 witness: a grant to user 2 has completed after is_sudo and the token
\* lookup had cached their answers for 2, and nothing is cached of premium
C10_Witness ==
    /\ last.op = "add_premium" /\ last.reply = "added" /\ last.target = 2
    /\ 2 \in DOMAIN premium_users
    /\ premium_users[2] = now + 3600
    /\ 2 \in DOMAIN SUDO_CACHE
    /\ 2 \in DOMAIN TOKEN_CACHE
    /\ 2 \notin DOMAIN PREMIUM_CACHE
    /\ NextIsPremium(2)

(***************************************************************************)
(* Claims about the premium grant.  What a duration word is worth is       *)
(* computed here from the claim's own table of units.                      *)
(***************************************************************************)
\* the units of a grant and their lengths in seconds
GrantUnits == {
    [name |-> <<"h","r">>,             seconds |-> 60 * 60],
    [name |-> <<"h","o","u","r">>,     seconds |-> 60 * 60],
    [name |-> <<"d","a","y">>,         seconds |-> 24 * 60 * 60],
    [name |-> <<"m","o","n","t","h">>, seconds |-> 30 * 24 * 60 * 60],
    [name |-> <<"y","e","a","r">>,     seconds |-> 365 * 24 * 60 * 60] }

\* word is the digits word[1..k] followed by the unit, in any letter case,
\* and then by nothing or by an s
SpellsGrant(word, k, unit) ==
    /\ k \in 1..(Len(word) - 1)
    /\ \A j \in 1..k : IsDigit(word[j])
    /\ lower(SubSeq(word, k + 1, Len(word))) \in {unit.name, unit.name \o <<"s">>}

AcceptedForm(word) ==
    \E k \in 1..Len(word) : \E unit \in GrantUnits : SpellsGrant(word, k, unit)

\* the seconds a word of the accepted form grants
GrantedSeconds(word) ==
    LET kk == CHOOSE ku \in (1..Len(word)) \X GrantUnits :
                  SpellsGrant(word, ku[1], ku[2])
    IN  DigitsValue(SubSeq(word, 1, kk[1]), 0) * kk[2].seconds

\* the user an /add names: the author of the replied-to message, the id
\* given, or the user known to the store under the name given
GrantTarget(in) ==
    IF in.reply_to # NoUser THEN in.reply_to
    ELSE IF in.args[1] = Arg_2 THEN 2
    ELSE IF DB /\ \E u \in users : in.args[1] = <<"@">> \o UsernameOf(u)
    THEN CHOOSE u \in users : in.args[1] = <<"@">> \o UsernameOf(u)
    ELSE NoUser

\* the duration word of an /add: its last argument
GrantWord(in) == in.args[Len(in.args)]

C12_GrantRejection ==
    [][\A in \in GrantInputs :
          /\ GrantStep(in)
          /\ ~AcceptedForm(GrantWord(in)) \/ GrantTarget(in) = NoUser
          => /\ last'.reply \in {"invalid duration", "user not found", "usage"}
             /\ UNCHANGED <<premium_users, premium_start, PREMIUM_CACHE>>]_vars

\* C12 witness: an /add was rejected for its target while user 2 holds a
\* premium row and a cached answer, both kept
C12_Witness ==
    /\ last.op = "add_premium" /\ last.reply = "user not found"
    /\ 2 \in DOMAIN premium_users
    /\ 2 \in DOMAIN PREMIUM_CACHE
    /\ PREMIUM_CACHE[2].result

(***************************************************************************)
(* Claims about the token verification.                                    *)
(***************************************************************************)
\* C13: when start_wrapper is called by u with the string pending for u in
\* temp_params and reports the activation, the store holds a token row for
\* u with expires_at = time of the call + 24 hours, and the pending entry
\* of u is gone.
C13_ActivationStoresToken ==
    [][\A u \in Subjects : \A args \in StartArgs : \A raises \in Raises :
          /\ StartStep(u, args, raises)
          /\ args # <<>>
          /\ u \in DOMAIN temp_params
          /\ temp_params[u] = args[1]
          /\ last'.reply = "activated"
          => /\ u \in DOMAIN tokens'
             /\ tokens'[u] = now + 24 * 60 * 60
             /\ u \notin DOMAIN temp_params']_vars

\* C14: when start_wrapper is called by u with a string that differs from
\* temp_params[u], or while u has no pending entry, the request is
\* rejected, and the token store, temp_params and the three resolver caches
\* are as they were.
C14_RejectionChangesNothing ==
    [][\A u \in Subjects : \A args \in StartArgs : \A raises \in Raises :
          /\ StartStep(u, args, raises)
          /\ args # <<>>
          /\ u \notin DOMAIN temp_params \/ temp_params[u] # args[1]
          => /\ last'.reply = "invalid token"
             /\ UNCHANGED <<tokens, temp_params,
                            SUDO_CACHE, PREMIUM_CACHE, TOKEN_CACHE>>]_vars

\* C14 witness: user 2 was turned away by /start while a verification is
\* pending and the caches hold answers for user 2
C14_Witness ==
    /\ last.op = "start_wrapper" /\ last.user = 2
    /\ last.reply = "invalid token"
    /\ 2 \in DOMAIN temp_params
    /\ 2 \in DOMAIN TOKEN_CACHE
    /\ 2 \in DOMAIN SUDO_CACHE
    /\ 2 \notin DOMAIN tokens

(***************************************************************************)
(* Claims about the resolver while the store is unavailable.               *)
(***************************************************************************)
\* the store is unavailable to a call: there is none, or the operations the
\* call makes on it raise
Unavailable(raises) == ~DB \/ raises = StoreOps

\* the step is a call of one of the three resolvers for u
SudoStep(u, raises) == Commit("is_sudo", u, is_sudo(Current, u, raises))

PremiumStepWith(u, raises) ==
    Commit("is_premium", u, is_premium(Current, u, raises))

TokenStepWith(u, raises) ==
    Commit("has_valid_token", u, has_valid_token(Current, u, raises))

\* C15: whenever the store is unavailable (DB is None or a lookup raises),
\* is_sudo, is_premium and has_valid_token resolve every user to no access
\* (False).
C15_OutageMeansNoAccess ==
    [][\A u \in Users : \A raises \in Raises :
          /\ Unavailable(raises)
          /\ \/ SudoStep(u, raises)
             \/ PremiumStepWith(u, raises)
             \/ TokenStepWith(u, raises)
          => ~last'.result]_vars

\* C15 as the code has it: whenever the store is unavailable, is_sudo,
\* is_premium and has_valid_token resolve to False every user other than
\* the owner for whom the caches they consult hold no unexpired entry, and
\* they return (no exception escapes); what they cache is that False.  The
\* owner is sudo by OWNER_ID without the store, and an unexpired cache entry
\* is served as it is.
C15_OutageMeansNoAccessButOwnerAndCache ==
    [][\A u \in Users \ {OWNER_ID} : \A raises \in Raises :
          Unavailable(raises) =>
              /\ SudoStep(u, raises) /\ ~Fresh(SUDO_CACHE, u)
                 => ~last'.result /\ ~SUDO_CACHE'[u].result
              /\ PremiumStepWith(u, raises) /\ ~Fresh(PREMIUM_CACHE, u)
                 => ~last'.result /\ ~PREMIUM_CACHE'[u].result
              /\ TokenStepWith(u, raises) /\ ColdCaches(u)
                 => ~last'.result /\ ~TOKEN_CACHE'[u].result]_vars

\* C15 witness: user 2 has a sudo row, a premium row and a token row, and
\* has_valid_token(2) has answered False after its three lookups raised
C15_Witness ==
    /\ last.op = "has_valid_token" /\ last.user = 2 /\ ~last.result
    /\ DB
    /\ last.log = <<"sudo_users.find_one", "premium_users.find_one",
                    "tokens.find_one">>
    /\ 2 \in sudo_users
    /\ 2 \in DOMAIN premium_users /\ premium_users[2] > now
    /\ 2 \in DOMAIN tokens

(***************************************************************************)
(* Claims about the broadcast.  A recipient answers Success when its       *)
(* answer is "Success", PermanentFailure when it is "ChatNotFound" or      *)
(* "Forbidden", and RateLimited, with a second send that succeeds, when it *)
(* is "RateLimited".                                                       *)
(***************************************************************************)
\* a confirmed broadcast has run to its final report
Delivered == delivery.report # <<>>

FinalReport == delivery.report[1]

PermanentFailures == {"ChatNotFound", "Forbidden"}

\* the recipients of the delivered broadcast that were answered with `kinds`
Answered(kinds) ==
    {r \in DOMAIN delivery.answers : delivery.answers[r] \in kinds}

\* the number of sends made to recipient r
SendsTo(r) ==
    Cardinality({k \in DOMAIN delivery.sends : delivery.sends[k] = r})

\* the failure sample of the final report: the recipients it names
FailureSample ==
    IF "sampleFailures" \in DOMAIN FinalReport
    THEN {FinalReport.sampleFailures[k] :
              k \in DOMAIN FinalReport.sampleFailures}
    ELSE {}

\* the counts of the final report are those of the answers
CountsAgree ==
    /\ \A r \in DOMAIN delivery.answers : SendsTo(r) >= 1
    /\ FinalReport.sent_count = Cardinality(Answered({"Success"}))
    /\ FinalReport.failed_count = Cardinality(Answered(PermanentFailures))
    /\ FinalReport.sent_count + FinalReport.failed_count
           = Len(delivery.recipients)
    /\ FinalReport.total_users = Len(delivery.recipients)

\* C16: for any recipients and any assignment of Success or
\* PermanentFailure to each, a confirmed broadcast attempts every recipient,
\* its final report has succeeded = number of Success, failed = number of
\* PermanentFailure and succeeded + failed = attempted = number of
\* recipients, and every failed recipient is in the failure sample of the
\* report (the sample's capacity is not reached by MaxRecipients failures).
C16_BroadcastAccounting ==
    Delivered /\ DOMAIN delivery.answers
                     = Answered({"Success"} \cup PermanentFailures)
    => /\ CountsAgree
       /\ Answered(PermanentFailures) \subseteq FailureSample

\* the part of C16 that is about the counts alone
C16_CountsAlone ==
    Delivered /\ DOMAIN delivery.answers
                     = Answered({"Success"} \cup PermanentFailures)
    => CountsAgree

\* C17: when the send to a recipient is answered RateLimited{retryAfter},
\* the engine waits at least retryAfter (a tenth of a second or more) and
\* sends again to the same recipient before going on; the retry succeeding, the recipient counts as
\* one success and no failure in the final report, and once as attempted.
C17_RetryOnThrottle ==
    Delivered /\ DOMAIN delivery.answers = Answered({"Success", "RateLimited"})
    => /\ \A r \in Answered({"RateLimited"}) :
              /\ SendsTo(r) = 2
              /\ \E k \in DOMAIN delivery.sends :
                    /\ k + 1 \in DOMAIN delivery.sends
                    /\ delivery.sends[k] = r /\ delivery.sends[k + 1] = r
       /\ delivery.slept >= Cardinality(Answered({"RateLimited"}))
       /\ FinalReport.sent_count = Len(delivery.recipients)
       /\ FinalReport.failed_count = 0
       /\ FinalReport.total_users = Len(delivery.recipients)

\* the step is /confirm_broadcast of the owner that does not get to its
\* sends
RefusedConfirmStep(raises) == ConfirmStep(OWNER_ID, <<>>, FALSE, raises)

\* C18: confirm_broadcast of the operator while BROADCAST_STATE has no
\* entry for them, or an entry in state waiting_message, sends to no
\* recipient, answers that nothing is prepared (raises nothing) and leaves
\* BROADCAST_STATE as it was.
C18_ConfirmWithoutJob ==
    [][\A raises \in Raises :
          /\ \/ OWNER_ID \notin DOMAIN BROADCAST_STATE
             \/ BROADCAST_STATE[OWNER_ID].state = "waiting_message"
          /\ RefusedConfirmStep(raises)
          => /\ delivery'.sends = <<>>
             /\ delivery'.report = <<>>
             /\ last'.reply = "no broadcast prepared"
             /\ BROADCAST_STATE' = BROADCAST_STATE]_vars

\* C18 witness: the owner's confirm was refused while their job waits for
\* its message, with a store that holds recipients
C18_Witness ==
    /\ last.op = "confirm_broadcast" /\ last.user = OWNER_ID
    /\ last.reply = "no broadcast prepared"
    /\ OWNER_ID \in DOMAIN BROADCAST_STATE
    /\ BROADCAST_STATE[OWNER_ID].state = "waiting_message"
    /\ DB /\ users # {}

\* a confirm_broadcast of the owner in the state the step leaves sends
\* nothing, whatever the platform would answer
ConfirmSendsNothingAfter ==
    \A answers \in [users -> Answers] :
        LET r == confirm_broadcast(BROADCAST_STATE', OWNER_ID, answers, TRUE, {})
        IN  /\ r.delivery.sends = <<>>
            /\ r.reply # "broadcast completed"

\* the step is /cancel_broadcast of the owner
CancelStep ==
    LET r == cancel_broadcast(BROADCAST_STATE, OWNER_ID)
    IN  BroadcastEffects("cancel_broadcast", OWNER_ID, r.BROADCAST_STATE,
                         delivery, r.reply)

\* C19: cancel_broadcast of the operator, with no job, a job waiting for
\* its message or a job ready, sends to no recipient and leaves the
\* operator without a job, so that a confirm_broadcast that follows sends
\* nothing.
C19_CancelDiscards ==
    [][CancelStep =>
          /\ delivery' = delivery
          /\ OWNER_ID \notin DOMAIN BROADCAST_STATE'
          /\ ConfirmSendsNothingAfter]_vars

\* C19 witness: the owner has cancelled, holds no job, and the store holds
\* recipients a confirm could send to
C19_Witness ==
    /\ last.op = "cancel_broadcast" /\ last.user = OWNER_ID
    /\ last.reply = "cancelled"
    /\ BROADCAST_STATE = <<>>
    /\ DB /\ users # {}
    /\ ~Delivered

\* BROADCAST_STATE holds at most one job per operator: it maps the operator
\* to one job
SingleJob(bs) ==
    /\ DOMAIN bs \subseteq {OWNER_ID}
    /\ \A u \in DOMAIN bs :
          /\ bs[u].state \in {"waiting_message", "ready"}
          /\ bs[u].message.staged <=> bs[u].state = "ready"

\* the step is /broadcast of the owner
PrepareStep ==
    LET r == broadcast_command(BROADCAST_STATE, OWNER_ID)
    IN  BroadcastEffects("broadcast_command", OWNER_ID, r.BROADCAST_STATE,
                         delivery, r.reply)

\* C20: BROADCAST_STATE holds at most one job per operator in every state,
\* and broadcast_command in any state replaces the operator's job by a
\* fresh job waiting for its message, with no payload, so that a payload
\* staged before can no longer be confirmed.
C20_SingleJobPerOperator ==
    [][/\ SingleJob(BROADCAST_STATE) /\ SingleJob(BROADCAST_STATE')
       /\ PrepareStep =>
             /\ BROADCAST_STATE'[OWNER_ID]
                    = [state |-> "waiting_message",
                       message |-> [staged |-> FALSE, text |-> FALSE]]
             /\ ConfirmSendsNothingAfter]_vars

\* C20 witness: the owner has prepared anew after a broadcast was delivered
C20_Witness ==
    /\ last.op = "broadcast_command" /\ last.user = OWNER_ID
    /\ OWNER_ID \in DOMAIN BROADCAST_STATE
    /\ BROADCAST_STATE[OWNER_ID].state = "waiting_message"
    /\ Delivered
    /\ DB /\ users # {}

\* the step is one of the four broadcast handlers run for user u
BroadcastHandlerStep(u) ==
    \/ BroadcastCommand(u)
    \/ HandleBroadcastMessage(u)
    \/ ConfirmBroadcast(u)
    \/ CancelBroadcast(u)

\* C22: BROADCAST_STATE holds an entry for no user but the configured
\* owner, in every state; and broadcast_command, confirm_broadcast,
\* cancel_broadcast and a message to stage that come from another user
\* leave BROADCAST_STATE as it was and make no send to any recipient.
C22_OwnerOnlyBroadcast ==
    [][/\ DOMAIN BROADCAST_STATE \subseteq {OWNER_ID}
       /\ DOMAIN BROADCAST_STATE' \subseteq {OWNER_ID}
       /\ \A u \in Users \ {OWNER_ID} :
             BroadcastHandlerStep(u)
             => /\ BROADCAST_STATE' = BROADCAST_STATE
                /\ delivery' = delivery \/ delivery'.sends = <<>>]_vars

\* C22 witness: another user's /confirm_broadcast was turned away while the
\* owner's job was ready and the store held recipients
C22_Witness ==
    /\ last.op = "confirm_broadcast" /\ last.user # OWNER_ID
    /\ last.reply = "owner only"
    /\ Prepared(BROADCAST_STATE, OWNER_ID)
    /\ DB /\ users # {}

(***************************************************************************)
(* Claims about a delivery in flight.                                      *)
(***************************************************************************)
\* the replies with which confirm_broadcast reports that it has failed
FailureReplies == {"database error", "error during broadcast"}

\* confirm_broadcast has just returned from a delivery that made a send
ReturnedFromDelivery ==
    /\ running = Idle
    /\ last.op = "confirm_broadcast"
    /\ last.reply \in {"broadcast completed", "error during broadcast"}
    /\ delivery.sends # <<>>

\* C21: once confirm_broadcast has started to deliver a ready job and has
\* returned, the delivery completed or ended with a reported error, the
\* operator has no live job (so that a later confirm_broadcast sends
\* nothing unless a job is prepared anew).
C21_JobConsumed ==
    ReturnedFromDelivery => last.user \notin DOMAIN BROADCAST_STATE

\* C23: a failure of the store aborts a confirmed broadcast only before a
\* send has been attempted, reported as one failure with no recipient sent
\* to; once a send has been attempted the run is not aborted.
C23_AbortOnlyBeforeSends ==
    last.op = "confirm_broadcast" /\ last.reply \in FailureReplies
    => delivery.sends = <<>>

\* the step gives the owner's /confirm_broadcast, received while a delivery
\* of the same job was in flight, to its handler
LateConfirmStep ==
    /\ Takes("confirm_broadcast")
    /\ Head(inbox).user = OWNER_ID
    /\ Head(inbox).late
    /\ inbox' = Tail(inbox)

\* C24: a second confirm_broadcast of the operator, sent while a delivery
\* started by confirm_broadcast is in flight, starts no other delivery of
\* the prepared job, so that no recipient receives its payload twice; here
\* for a delivery that has made a send when the second confirm is taken.
C24_NotReentrant ==
    [][LateConfirmStep /\ delivery.sends # <<>> => running' = Idle]_vars

\* the operator's /cancel_broadcast has arrived during the delivery in
\* flight
CancelIssued ==
    /\ Flying
    /\ \E i \in DOMAIN inbox :
          /\ inbox[i].kind = "cancel_broadcast"
          /\ inbox[i].user = running.user

\* C25: when the operator issues cancel_broadcast while a delivery is in
\* flight, the loop sees it at the next recipient boundary and sends to no
\* further recipient.
C25_CooperativeCancel ==
    [][CancelIssued => delivery'.sends = delivery.sends]_vars

\* the step sends to the next recipient of the delivery in flight
NextSendStep ==
    /\ Flying
    /\ delivery.sends # <<>>
    /\ delivery'.sends # delivery.sends

\* C26: between the end of the attempt for a recipient, a success or a
\* permanent failure, and the start of the send to the next recipient, the
\* engine makes one inter-message pause.
C26_PauseBetweenSends ==
    [][NextSendStep => running.paused]_vars

\* the rows a delivery goes through, as a set
RecipientSet == {delivery.recipients[i] : i \in DOMAIN delivery.recipients}

\* C28: the recipients of a broadcast are the users known when the job was
\* prepared, rows created later are not sent to, and the number of
\* recipients to attempt is the total announced at the start.
C28_RecipientSnapshot ==
    Flying => /\ RecipientSet = prepared_users
              /\ running.total_users = Len(delivery.recipients)

\* the part of C28 about the announced total alone
C28_TotalAlone ==
    Flying => running.total_users = Len(delivery.recipients)

\* the sender of the update that is taken has a job that waits for its
\* message
SenderWaits ==
    /\ Head(inbox).user \in DOMAIN BROADCAST_STATE
    /\ BROADCAST_STATE[Head(inbox).user].state = "waiting_message"

\* the job of the sender is ready, with the update taken as its payload
StagedFromUpdate ==
    BROADCAST_STATE' =
        Put(BROADCAST_STATE, Head(inbox).user,
            [state |-> "ready",
             message |-> [staged |-> TRUE, text |-> Head(inbox).has_text]])

\* the step gives a message of one of `kinds` to its handler
MessageStep(kinds) ==
    /\ running = Idle
    /\ inbox # <<>>
    /\ Head(inbox).kind \in kinds
    /\ inbox' = Tail(inbox)

C27_ProgressHasNoEffect ==
    Delivered => /\ CountsAgree
                 /\ \A r \in DOMAIN delivery.answers : SendsTo(r) <= 1

(***************************************************************************)
(* Claims about the premium cache when lookups and grant commands are      *)
(* coroutines suspended at their store operations.                         *)
(***************************************************************************)

\* the is_premium call of coroutine t returns in this step
PremiumReturns(t) ==
    /\ t \in tasks
    /\ t.op = "my_plan_command"
    /\ tasks' = tasks \ {t}
    /\ last'.op = "is_premium"

C38_OwnerIsSudo ==
    [][\A raises \in Raises :
          SudoStep(OWNER_ID, raises)
              => /\ last'.result
                 /\ last'.log = <<>>
                 /\ SUDO_CACHE'[OWNER_ID].result]_vars

\* is_sudo(owner) has answered True with no store, no sudo row for the
\* owner, and after the entry cached by an earlier call had expired
C38_Witness ==
    /\ last.op = "is_sudo" /\ last.user = OWNER_ID /\ last.result
    /\ ~DB
    /\ OWNER_ID \notin sudo_users
    /\ last.log = <<>>
    /\ now >= CACHE_EXPIRY
    /\ SUDO_CACHE[OWNER_ID].expiry = now + CACHE_EXPIRY

(***************************************************************************)
(* Claims about blocks that are empty after trimming.                      *)
(***************************************************************************)

\* the blocks of the document without those that are empty after
\* trimming, in document order
VisibleBlocks == SelectSeq(Blocks, LAMBDA b : strip(b) # <<>>)

\* what the parser's loop returns for the document whose blocks are the
\* visible ones
VisibleResult == ParseLoop(VisibleBlocks, 1, <<>>, <<>>)

\* the errors without the number of their block
Unnumbered(es) == [k \in 1..Len(es) |-> [msg |-> es[k].msg, n |-> es[k].n]]

\* C35: removing every block that is empty after trimming from a document
\* leaves the returned questions and the returned errors, the block number
\* of each error included, unchanged.
C35_BlankBlocksInvisible ==
    parsed => /\ valid_questions = VisibleResult[1]
              /\ errors = VisibleResult[2]

\* what of C35 the code does keep: the questions, and the errors but for
\* the block numbers they carry
C35_ButBlockNumbers ==
    parsed => /\ valid_questions = VisibleResult[1]
              /\ Unnumbered(errors) = Unnumbered(VisibleResult[2])

(***************************************************************************)
(* Claims about verification strings and what an activation is worth.      *)
(***************************************************************************)

\* the strings /start of u would be activated with in this state
AcceptedStrings(u) ==
    {x \in Params :
        start_wrapper(Current, tokens, temp_params, u, <<x>>, {}).reply
            = "activated"}

\* token_command has issued a string in the last step
Issued == {"verify link", "link failed"}

\* C36: at any time at most one string is accepted from a user; after
\* start_wrapper has reported the activation to u no string is accepted
\* from u, the one just used included; after token_command has issued a
\* string to u that string alone is accepted from u, so every other string
\* issued to u before is rejected.
C36_SingleUseSinglePending ==
    [][\A u \in Subjects :
          /\ Cardinality(AcceptedStrings(u)') <= 1
          /\ \A args \in StartArgs : \A raises \in Raises :
                StartStep(u, args, raises) /\ last'.reply = "activated"
                    => AcceptedStrings(u)' = {}
          /\ \A param \in Params : \A short_url \in BOOLEAN :
             \A raises \in Raises :
                /\ TokenCommandStep(u, param, short_url, raises)
                /\ last'.reply \in Issued
                => AcceptedStrings(u)' = {param}]_vars

\* user 2 was activated with a string, holds a token row, and has been
\* turned away on presenting a string again
C36_Witness ==
    /\ last.op = "start_wrapper" /\ last.user = 2
    /\ last.reply = "invalid token"
    /\ 2 \in DOMAIN tokens
    /\ 2 \notin DOMAIN temp_params
    /\ AcceptedStrings(2) = {}

\* C37: after start_wrapper has reported the activation to u with the
\* store available, the next has_valid_token(u), and so the next
\* check_access of u, grants access, whatever checks were made before.
C37_ActivationTakesEffect ==
    /\ last.op = "start_wrapper"
    /\ last.reply = "activated"
    /\ DB
    => /\ has_valid_token(Current, last.user, {}).result
       /\ check_access(Current, last.user, {}).result

(***************************************************************************)
(* Claims about how long a cache may answer for a grant or a token that    *)
(* the store no longer honours.                                            *)
(***************************************************************************)

\* neither is_sudo nor is_premium grants u in a call made now
NeitherSudoNorPremium(u, raises) ==
    LET s == is_sudo(Current, u, raises)
    IN  ~s.result /\ ~is_premium(s.st, u, raises).result

\* C31: with no new grant, is_premium(u) returns True only while the store
\* holds a grant for u and not later than that grant's expiry_date plus
\* CACHE_EXPIRY seconds; for u neither sudo nor premium whose token the
\* store has evicted, has_valid_token(u) returns True not later than
\* CACHE_EXPIRY seconds after the eviction.
C31_BoundedStaleness ==
    [][\A u \in Subjects : \A raises \in Raises :
          /\ PremiumStepWith(u, raises) /\ last'.result
                 => /\ u \in DOMAIN premium_users
                    /\ now <= premium_users[u] + CACHE_EXPIRY
          /\ (/\ TokenStepWith(u, raises) /\ last'.result
              /\ NeitherSudoNorPremium(u, raises)
              /\ u \notin DOMAIN tokens)
                 => /\ u \in DOMAIN evicted_at
                    /\ now <= evicted_at[u] + CACHE_EXPIRY]_vars

\* is_premium(2) has answered True from the cache at a time when the grant
\* the store holds for user 2 has expired
C31_Witness ==
    /\ last.op = "is_premium" /\ last.user = 2 /\ last.result
    /\ last.log = <<>>
    /\ 2 \in DOMAIN premium_users
    /\ premium_users[2] <= now
    /\ now < premium_users[2] + CACHE_EXPIRY

(***************************************************************************)
(* Claims about the daily limit and the quiz polls.                        *)
(***************************************************************************)

\* the polls user u has been sent in the current UTC day
PollsToday(u) == IF u \in DOMAIN polls_today THEN polls_today[u] ELSE 0

\* the quota of u that is left in the current UTC day
QuotaLeft(u) == DAILY_QUIZ_LIMIT - PollsToday(u)

NotPremium(u) == u \notin DOMAIN premium_users

Least(a, b) == IF a <= b THEN a ELSE b

\* C32: a user who is not premium is sent at most DAILY_QUIZ_LIMIT polls in
\* one UTC day; an upload of more questions than the quota left that day
\* goes through exactly the first questions the quota allows, and an upload
\* made with no quota left goes through none.
C32_DailyCap ==
    [][\A u \in Subjects :
       \A questions \in 0..MaxQuestions :
       \A answers \in PollAnswers(questions) :
       \A edit \in EditsOf(questions) :
          UploadStep(u, TRUE, questions, answers, edit) /\ NotPremium(u)
              => /\ PollsToday(u)' <= DAILY_QUIZ_LIMIT
                 /\ upload'.attempted = Least(questions, QuotaLeft(u))]_vars

\* what of C32 the code does keep: the number of polls of one UTC day
C32_CapAlone ==
    \A u \in Subjects : NotPremium(u) => PollsToday(u) <= DAILY_QUIZ_LIMIT

\* C33: the count handle_document holds against the daily limit of a user
\* who is not premium is the number of polls the user was sent in the
\* current UTC day, so that after k polls today DAILY_QUIZ_LIMIT - k more
\* can be sent, whatever was sent on earlier days.
C33_QuotaPerDay ==
    \A u \in Subjects :
        NotPremium(u) => QuizCountToday(quiz_rows, u) = PollsToday(u)

\* C34: when send_poll is rate-limited for a question the same question is
\* sent again after the wait, so that with no other error the questions
\* the upload goes through are each sent once, in order, and sent_count is
\* their number.
C34_RetryOnRateLimit ==
    [][\A u \in Subjects :
       \A questions \in 1..MaxQuestions :
       \A answers \in PollAnswers(questions) :
          (/\ UploadStep(u, TRUE, questions, answers, "ok")
           /\ last'.reply = "sent"
           /\ \A k \in 1..questions : answers[k] # "Error")
              => /\ upload'.sends = [q \in 1..upload'.attempted |-> q]
                 /\ upload'.sent_count = upload'.attempted]_vars
====
